---- MODULE Spec2Model ----
(***************************************************************************)
(* Calendar synchronisation engine (SyncEngine), its mapping store         *)
(* (SyncStore) and the write-side transforms of the calendar adapters.     *)
(*                                                                         *)
(* A sync run is modelled one awaited adapter call at a time: every        *)
(* getEvents, createEvent, updateEvent and deleteEvent call is one step    *)
(* that either returns or raises.  Between runs the owner of the calendars *)
(* may add, edit or remove events.                                         *)
(***************************************************************************)
EXTENDS Integers, Sequences, FiniteSets, TLC

(* ---------------------------------------------------------------------- *)
(* Bounds                                                                 *)
(* ---------------------------------------------------------------------- *)
MaxRuns == 3        \* sync runs per behaviour
MaxUser == 2        \* events authored by the calendars' owner
MaxMirrors == 3     \* ids handed out by createEvent
MaxStamp == 2       \* distinct non-empty updatedAt tokens
MaxFaults == 1      \* adapter calls that raise per behaviour
MaxUserOps == 1     \* edits and removals by the owner per behaviour

(* ---------------------------------------------------------------------- *)
(* Types                                                                  *)
(* ---------------------------------------------------------------------- *)
CalendarSource == {"dooray", "google", "apple"}
EventVisibility == {"public", "private"}

\* updatedAt tokens: 0 stands for the empty string / undefined (falsy)
NoStamp == 0

\* registration orders initialize() can produce: dooray first, then the
\* optional google and apple clients
Registrations ==
  { <<"dooray", "google">>, <<"dooray", "google", "apple">> }

\* ids are opaque strings, unique within one calendar; <<"u", n>> is the id
\* of the n-th event the owner authored in a calendar, <<"m", n>> the n-th id
\* returned by createEvent
NoId == <<"", 0>>
UserId(n) == <<"u", n>>
MirrorId(n) == <<"m", n>>

NoMapping == [sourceId |-> NoId]

Range(s) == { s[i] : i \in 1..Len(s) }

RECURSIVE Orders(_)
\* every list holding each element of S once (getEvents returns them in an
\* order the backend chooses)
Orders(S) ==
  IF S = {} THEN { <<>> }
  ELSE UNION { { <<x>> \o o : o \in Orders(S \ {x}) } : x \in S }

(* ---------------------------------------------------------------------- *)
(* SyncStore                                                              *)
(* ---------------------------------------------------------------------- *)
SameKey(m, sourceId, source, target) ==
  m.sourceId = sourceId /\ m.source = source /\ m.target = target

findMapping(maps, sourceId, source, target) ==
  LET hit(m) == SameKey(m, sourceId, source, target)
      hits == SelectSeq(maps, hit)
  IN IF hits = <<>> THEN NoMapping ELSE Head(hits)

findMappingsByTarget(maps, source, target) ==
  LET hit(m) == m.source = source /\ m.target = target
  IN SelectSeq(maps, hit)

\* an upsert that pushes the row without looking for its key
upsertMappingAppend(maps, mapping) == Append(maps, mapping)

\* an upsert that replaces the row of a key and never adds one
upsertMappingReplaceOnly(maps, mapping) ==
  LET idxs == { i \in 1..Len(maps) :
                  SameKey(maps[i], mapping.sourceId, mapping.source,
                          mapping.target) }
  IN IF idxs # {}
     THEN LET idx == CHOOSE i \in idxs : \A j \in idxs : i <= j
          IN [maps EXCEPT ![idx] = mapping]
     ELSE maps

upsertMapping(maps, mapping) ==
  LET idxs == { i \in 1..Len(maps) :
                  SameKey(maps[i], mapping.sourceId, mapping.source,
                          mapping.target) }
  IN IF idxs # {}
     THEN LET idx == CHOOSE i \in idxs : \A j \in idxs : i <= j
          IN [maps EXCEPT ![idx] = mapping]
     ELSE Append(maps, mapping)

\* a removal that drops the rows of the source event on every edge
removeMappingBySourceId(maps, sourceId, source, target) ==
  LET keep(m) == m.sourceId # sourceId
  IN SelectSeq(maps, keep)

removeMapping(maps, sourceId, source, target) ==
  LET keep(m) == ~SameKey(m, sourceId, source, target)
  IN SelectSeq(maps, keep)

\* SyncStore.isSyncedEvent
isSyncedEvent(maps, eventId, calendar) ==
  \E i \in 1..Len(maps) :
    maps[i].targetId = eventId /\ maps[i].target = calendar

\* SyncStore.getSyncedTargetIds
getSyncedTargetIdsOfSource(maps, calendar) ==
  { maps[i].targetId : i \in { j \in 1..Len(maps) :
                                 maps[j].source = calendar } }

getSyncedTargetIds(maps, calendar) ==
  { maps[i].targetId : i \in { j \in 1..Len(maps) :
                                 maps[j].target = calendar } }

\* get count()
count(maps) == Len(maps)

\* The store file is missing, cannot be read, holds text that is no JSON
\* (an empty or cut-off file included), holds JSON that is no array, or
\* holds the JSON array of rows a save wrote.
FileKinds == {"missing", "unreadable", "invalid", "nonarray", "array"}

NoFile == [kind |-> "missing", rows |-> <<>>]

\* JSON.stringify(this.mappings): a property whose value is undefined is
\* left out of the row
stringify(maps) ==
  [i \in 1..Len(maps) |->
     IF maps[i].sourceUpdatedAt = NoStamp
     THEN [sourceId |-> maps[i].sourceId, source |-> maps[i].source,
           targetId |-> maps[i].targetId, target |-> maps[i].target,
           lastSyncedAt |-> maps[i].lastSyncedAt]
     ELSE maps[i]]

\* JSON.parse(raw) of an array of rows: reading the property a row lacks
\* gives undefined
parse(rows) ==
  [i \in 1..Len(rows) |->
     IF "sourceUpdatedAt" \in DOMAIN rows[i] THEN rows[i]
     ELSE [sourceId |-> rows[i].sourceId, source |-> rows[i].source,
           targetId |-> rows[i].targetId, target |-> rows[i].target,
           lastSyncedAt |-> rows[i].lastSyncedAt,
           sourceUpdatedAt |-> NoStamp]]

\* SyncStore.load: this.mappings after the constructor, when it is an array
load(f) == IF f.kind = "array" THEN parse(f.rows) ELSE <<>>

\* SyncStore.load: JSON.parse returned a value that is no array and load
\* stored it in this.mappings
loadsNonArray(f) == f.kind = "nonarray"

\* SyncStore.save: the file after writeFileSync returned or raised
save(f, maps, ok) ==
  IF ok THEN [kind |-> "array", rows |-> stringify(maps)] ELSE f

\* a save() without the try/catch
saveRaisesOnFailure(ok) == ~ok

\* SyncStore.save: whether the error of writeFileSync leaves save()
saveRaises(ok) == FALSE

\* writeFileSync opens the file with O_TRUNC and then writes: the file of a
\* process that dies in between
Truncated == [kind |-> "invalid", rows |-> <<>>]

(* ---------------------------------------------------------------------- *)
(* SyncEngine: pure parts                                                 *)
(* ---------------------------------------------------------------------- *)
getVisibility(source) == IF source = "dooray" THEN "public" ELSE "private"

\* a change detection that compares the two tokens without asking for both
\* to be present
needsUpdateAnyDifference(event, existing) ==
  event.updatedAt # existing.sourceUpdatedAt

\* event.updatedAt && existing.sourceUpdatedAt && they differ
needsUpdate(event, existing) ==
  /\ event.updatedAt # NoStamp
  /\ existing.sourceUpdatedAt # NoStamp
  /\ event.updatedAt # existing.sourceUpdatedAt

\* an engine that trusts the visibility field of the fetched event
PairVisibilityFromEvent(source, event) == event.visibility

\* the visibility sync() computes for a pair and hands to
\* syncEventsToTarget with each event of the source
PairVisibility(source, event) == getVisibility(source)

\* pair loops without the self-pair test
TargetsOfAll(source, cl) == cl

\* the targets the two pair loops visit for one source, in registration
\* order: "if (targetName === source) continue"
TargetsOf(source, cl) ==
  LET other(t) == t # source
  IN SelectSeq(cl, other)

RECURSIVE Flatten(_)
Flatten(ss) == IF ss = <<>> THEN <<>> ELSE Head(ss) \o Flatten(Tail(ss))

\* propagation loops that take their targets from allEvents, the calendars
\* whose fetch returned, instead of this.clients
PropWorkFetchedTargets(ae, fs, cl) ==
  Flatten([i \in 1..Len(fs) |->
    LET source == fs[i]
        ts == TargetsOf(source, fs)
    IN Flatten([j \in 1..Len(ts) |->
         [k \in 1..Len(ae[source]) |->
            [source |-> source, target |-> ts[j], event |-> ae[source][k],
             visibility |-> PairVisibility(source, ae[source][k])]]])])

\* propagation loops that stop after the first target of each source
PropWorkFirstTarget(ae, fs, cl) ==
  Flatten([i \in 1..Len(fs) |->
    LET source == fs[i]
        ts == SubSeq(TargetsOf(source, cl), 1, 1)
    IN Flatten([j \in 1..Len(ts) |->
         [k \in 1..Len(ae[source]) |->
            [source |-> source, target |-> ts[j], event |-> ae[source][k],
             visibility |-> PairVisibility(source, ae[source][k])]]])])

\* the (source, target, event, visibility) visits of the propagation loops
\* of sync(), in the order the code makes them
PropWork(ae, fs, cl) ==
  Flatten([i \in 1..Len(fs) |->
    LET source == fs[i]
        ts == TargetsOf(source, cl)
    IN Flatten([j \in 1..Len(ts) |->
         [k \in 1..Len(ae[source]) |->
            [source |-> source, target |-> ts[j], event |-> ae[source][k],
             visibility |-> PairVisibility(source, ae[source][k])]]])])

\* a cleanup that takes its sources from this.clients and reads a calendar
\* whose fetch raised as an empty list
CleanupWorkAllClients(ae, fs, cl, maps) ==
  Flatten([i \in 1..Len(cl) |->
    LET source == cl[i]
        sourceIds == { e.sourceId : e \in Range(ae[source]) }
        ts == TargetsOf(source, cl)
    IN Flatten([j \in 1..Len(ts) |->
         LET gone(m) == m.sourceId \notin sourceIds
             ms == SelectSeq(findMappingsByTarget(maps, source, ts[j]), gone)
         IN [k \in 1..Len(ms) |->
              [source |-> source, target |-> ts[j], mapping |-> ms[k]]]])])

\* the (source, target, mapping) visits of cleanupDeletedEvents() that reach
\* the deleteEvent call, in the order the code makes them
CleanupWork(ae, fs, cl, maps) ==
  Flatten([i \in 1..Len(fs) |->
    LET source == fs[i]
        sourceIds == { e.sourceId : e \in Range(ae[source]) }
        ts == TargetsOf(source, cl)
    IN Flatten([j \in 1..Len(ts) |->
         LET gone(m) == m.sourceId \notin sourceIds
             ms == SelectSeq(findMappingsByTarget(maps, source, ts[j]), gone)
         IN [k \in 1..Len(ms) |->
              [source |-> source, target |-> ts[j], mapping |-> ms[k]]]])])

\* errors.push({sourceId, source, target, message})
PushError(errors, sourceId, source, target, kind) ==
  Append(errors, [sourceId |-> sourceId, source |-> source,
                  target |-> target, kind |-> kind])

\* a cleanup that forgets removeMapping
AfterDeleteKeepsRow(maps, mapping, ok) == maps

\* a cleanup that drops the row before it knows deleteEvent returned
AfterDeleteAlwaysRemoves(maps, mapping, ok) ==
  removeMapping(maps, mapping.sourceId, mapping.source, mapping.target)

\* the store after the try/catch around deleteEvent in cleanupDeletedEvents
AfterDelete(maps, mapping, ok) ==
  IF ok THEN removeMapping(maps, mapping.sourceId, mapping.source,
                           mapping.target)
  ELSE maps

\* syncEventsToTarget: the row written after updateEvent,
\* {...existing, lastSyncedAt, sourceUpdatedAt}
UpdatedRowOfEvent(existing, event, now) ==
  [existing EXCEPT !.targetId = event.sourceId, !.lastSyncedAt = now,
                   !.sourceUpdatedAt = event.updatedAt]

UpdatedRow(existing, event, now) ==
  [existing EXCEPT !.lastSyncedAt = now,
                   !.sourceUpdatedAt = event.updatedAt]

\* an engine that notes the attempt in the store when the call raises
AfterWriteRaisedNotesAttempt(maps, mapping) == upsertMapping(maps, mapping)

\* the store after the catch of the event loop of syncEventsToTarget, which
\* pushes the error and nothing else; mapping is the row the iteration
\* would have written
AfterWriteRaised(maps, mapping) == maps

\* an engine whose counters record that something was done, not how often
OutcomeFlags(res, field, sourceId, source, target, kind, raised) ==
  IF raised
  THEN [res EXCEPT !.errors = PushError(@, sourceId, source, target, kind)]
  ELSE [res EXCEPT ![field] = 1]

\* the result after an iteration whose adapter call returned: the store call
\* that follows is inside the same try, so it is counted unless the store
\* call raises
Outcome(res, field, sourceId, source, target, kind, raised) ==
  IF raised
  THEN [res EXCEPT !.errors = PushError(@, sourceId, source, target, kind)]
  ELSE [res EXCEPT ![field] = @ + 1]

EmptyResult == [created |-> 0, updated |-> 0, deleted |-> 0, errors |-> <<>>]

(* ---------------------------------------------------------------------- *)
(* Calendar adapters: the objects createEvent and updateEvent write       *)
(* ---------------------------------------------------------------------- *)
\* A text is a sequence of tokens (characters, or fixed words written as
\* one token).  LOCK stands for the padlock sign of the private title
\* prefix and NOTICE for the fixed "synced, not visible" description.
MaxText == 2        \* tokens in a description or a location

Adapters == {"dooray-caldav", "dooray-rest", "google", "apple"}

RECURSIVE TextsUpTo(_, _)
TextsUpTo(chars, n) ==
  IF n = 0 THEN { <<>> }
  ELSE LET shorter == TextsUpTo(chars, n - 1)
       IN shorter \cup { Append(t, c) : t \in shorter, c \in chars }

Titles == { <<>>, <<"t">> }
Descriptions == TextsUpTo({"d", ","}, MaxText)
Locations == TextsUpTo({"l", ";"}, MaxText)
Recurrences == { <<>>, <<"FREQ=DAILY">> }

DateOnly == <<"2026", "-", "02", "-", "15">>
DateTime == <<"2026", "-", "02", "-", "15", "T", "10", ":", "00", ":",
              "00", "Z">>

\* hay holds the non-empty text needle verbatim
Contains(hay, needle) ==
  /\ needle # <<>>
  /\ \E i \in 1..(Len(hay) - Len(needle) + 1) :
       SubSeq(hay, i, i + Len(needle) - 1) = needle

Without(text, dropped) ==
  LET kept(c) == c \notin dropped
  IN SelectSeq(text, kept)

RECURSIVE escapeICal(_)
escapeICal(text) ==
  IF text = <<>> THEN <<>>
  ELSE LET c == Head(text)
       IN (IF c \in {"\\", ";", ","} THEN <<"\\", c>>
           ELSE IF c = "\n" THEN <<"\\", "n">>
           ELSE <<c>>) \o escapeICal(Tail(text))

toICalDate(isoDate) ==
  IF "T" \notin Range(isoDate) THEN Without(isoDate, {"-"})
  ELSE Without(isoDate, {"-", ":"})

\* isoDate.split("T")[0]
BeforeT(isoDate) ==
  LET ts == { i \in 1..Len(isoDate) : isoDate[i] = "T" }
  IN IF ts = {} THEN isoDate
     ELSE SubSeq(isoDate, 1, (CHOOSE i \in ts : \A j \in ts : i <= j) - 1)

Field(name, value) == [name |-> name, value |-> value]

Opt(cond, fields) == IF cond THEN fields ELSE <<>>

PrivateNotice == <<"NOTICE">>

\* DoorayCalendarClient.toICal and AppleCalendarClient.toICal (CalDAV)
toICal(uid, event, visibility) ==
  LET title == IF visibility = "private" THEN <<"LOCK", " ">> \o event.title
               ELSE event.title
      description == IF visibility = "private" THEN PrivateNotice
                     ELSE event.description
      dtParam == IF event.isAllDay THEN ";VALUE=DATE" ELSE ""
  IN << Field("BEGIN", <<"VCALENDAR">>),
        Field("VERSION", <<"2.0">>),
        Field("PRODID", <<"-//OpenClaw Dooray Sync//EN">>),
        Field("BEGIN", <<"VEVENT">>),
        Field("UID", uid),
        Field("DTSTAMP", <<"NOW">>),
        Field("DTSTART" \o dtParam, toICalDate(event.startTime)),
        Field("DTEND" \o dtParam, toICalDate(event.endTime)),
        Field("SUMMARY", escapeICal(title)) >>
     \o Opt(description # <<>>,
            << Field("DESCRIPTION", escapeICal(description)) >>)
     \o Opt(event.location # <<>> /\ visibility # "private",
            << Field("LOCATION", escapeICal(event.location)) >>)
     \o << Field("CLASS", IF visibility = "private" THEN <<"PRIVATE">>
                          ELSE <<"PUBLIC">>) >>
     \o Opt(event.recurrence # <<>>, << Field("RRULE", event.recurrence) >>)
     \o << Field("END", <<"VEVENT">>), Field("END", <<"VCALENDAR">>) >>

\* GoogleCalendarClient.toGoogleEvent
toGoogleEvent(event, visibility) ==
  << Field("summary", IF visibility = "private"
                      THEN <<"LOCK", " ">> \o event.title ELSE event.title),
     Field("description", IF visibility = "private" THEN PrivateNotice
                          ELSE event.description),
     Field("visibility", IF visibility = "private" THEN <<"private">>
                         ELSE <<"default">>) >>
  \o Opt(event.location # <<>> /\ visibility # "private",
         << Field("location", event.location) >>)
  \o (IF event.isAllDay
      THEN << Field("start.date", BeforeT(event.startTime)),
              Field("end.date", BeforeT(event.endTime)) >>
      ELSE << Field("start.dateTime", event.startTime),
              Field("end.dateTime", event.endTime) >>)
  \o Opt(event.recurrence # <<>>,
         << Field("recurrence[0]", event.recurrence) >>)
  \o Opt(visibility = "private", << Field("transparency", <<"opaque">>) >>)
  \o Opt(event.isOwnCalendar = FALSE,
         << Field("reminders.useDefault", <<"false">>) >>)

\* DoorayCalendarClient.toRequestBody (Dooray REST)
toRequestBody(event, visibility) ==
  << Field("subject", event.title),
     Field("body.content", event.description),
     Field("body.mimeType", <<"text/plain">>),
     Field("startedAt", event.startTime),
     Field("endedAt", event.endTime),
     Field("allDay", IF event.isAllDay THEN <<"true">> ELSE <<"false">>) >>
  \o Opt(event.location # <<>>, << Field("location", event.location) >>)
  \o Opt(visibility = "private", << Field("scope", <<"private">>) >>)
  \o Opt(event.recurrence # <<>>, << Field("recurrence", event.recurrence) >>)

\* the events and visibilities an adapter can be asked to write
Probes ==
  { [event |-> [title |-> t, description |-> d, location |-> l,
                recurrence |-> r, isAllDay |-> a,
                startTime |-> IF a THEN DateOnly ELSE DateTime,
                endTime |-> IF a THEN DateOnly ELSE DateTime,
                isOwnCalendar |-> own],
     visibility |-> v] :
      t \in Titles, d \in Descriptions, l \in Locations, r \in Recurrences,
      a \in BOOLEAN, own \in BOOLEAN, v \in EventVisibility }

\* the value of the named field of an object, or the empty text when the
\* object has no such field: the "?? ''" of the read-side transforms
ValueOf(fields, name) ==
  LET at == { i \in 1..Len(fields) : fields[i].name = name }
  IN IF at = {} THEN <<>> ELSE fields[CHOOSE i \in at : TRUE].value

\* parseICalToEvent of the CalDAV clients: the text after "SUMMARY:",
\* "DESCRIPTION:" and "LOCATION:" up to the end of the line, as it stands
parseICalToEvent(fields) ==
  [title |-> ValueOf(fields, "SUMMARY"),
   description |-> ValueOf(fields, "DESCRIPTION"),
   location |-> ValueOf(fields, "LOCATION")]

\* GoogleCalendarClient.toCalendarEvent
toCalendarEventGoogle(fields) ==
  [title |-> ValueOf(fields, "summary"),
   description |-> ValueOf(fields, "description"),
   location |-> ValueOf(fields, "location")]

\* DoorayCalendarClient.toCalendarEvent (Dooray REST)
toCalendarEventDoorayRest(fields) ==
  [title |-> ValueOf(fields, "subject"),
   description |-> ValueOf(fields, "body.content"),
   location |-> ValueOf(fields, "location")]

NoEvent == [title |-> <<"NONE">>]

NoProbe == [visibility |-> "none"]
NoObject == [adapter |-> "none", fields |-> <<>>]

(* ---------------------------------------------------------------------- *)
(* Calendar adapters: getEvents against a backend whose reads may fail    *)
(* ---------------------------------------------------------------------- *)
MaxCalendars == 2   \* calendars (Google: result pages) a backend holds

\* "dooray-caldav" is the client that reads the primary calendar and
\* "dooray-caldav-all" the one that reads every calendar of the account
Readers ==
  {"dooray-caldav", "dooray-caldav-all", "dooray-rest", "google", "apple"}

\* the endpoints getCalendars tries in turn
Endpoints == 3

\* how an awaited backend read ends: it returns what was asked for, it
\* rejects (transport failure, or a client library raising on an auth or
\* status failure), or its HTTP response arrives with ok = false
ReadOutcomes(adapter) ==
  IF adapter = "dooray-rest" THEN {"ok", "rejects", "notOk"}
  ELSE {"ok", "rejects"}

\* list: the reads that find the calendars (login and fetchCalendars, or
\* one GET per endpoint); reads: one read per calendar or page.  Google's
\* ensureInitialized builds the client without reading the backend.
ListReads(adapter) ==
  IF adapter = "google" THEN { <<"ok">> }
  ELSE [1..(IF adapter = "dooray-rest" THEN Endpoints ELSE 1)
          -> ReadOutcomes(adapter)]

CalendarReads(adapter) ==
  UNION { [1..n -> ReadOutcomes(adapter)] : n \in 1..MaxCalendars }

ReadScenarios ==
  UNION { { [adapter |-> a, list |-> l, reads |-> r] :
              l \in ListReads(a), r \in CalendarReads(a) } : a \in Readers }

NotCalled == [status |-> "none", events |-> <<>>]
Raised == [status |-> "raised", events |-> <<>>]
Returned(events) == [status |-> "returned", events |-> events]

\* calendar k holds the one event k
EventsRead(reads) ==
  Flatten([k \in 1..Len(reads) |->
             IF reads[k] = "ok" THEN <<k>> ELSE <<>>])

\* ensureInitialized of the CalDAV clients: login and fetchCalendars
ensureInitialized(list) == list[1] = "ok"

\* DoorayCalendarClient.getCalendars (Dooray REST): the first endpoint that
\* answers ok gives the list; a response that is not ok moves on to the
\* next endpoint, and a raise follows the last
RECURSIVE getCalendars(_)
getCalendars(list) ==
  IF list = <<>> THEN FALSE
  ELSE IF Head(list) = "ok" THEN TRUE
  ELSE IF Head(list) = "rejects" THEN FALSE
  ELSE getCalendars(Tail(list))

\* getEvents of the Dooray CalDAV client that reads the primary calendar
getEventsDoorayCalDav(sc) ==
  IF ~ensureInitialized(sc.list) THEN Raised
  ELSE IF sc.reads[1] # "ok" THEN Raised
  ELSE Returned(<<1>>)

\* getEvents of the Dooray CalDAV client that reads all calendars: the
\* read of each calendar sits in its own try/catch
getEventsDoorayCalDavAll(sc) ==
  IF ~ensureInitialized(sc.list) THEN Raised
  ELSE Returned(EventsRead(sc.reads))

\* getEvents of the Dooray REST client: getCalendarEvents returns [] on a
\* response that is not ok
getEventsDoorayRest(sc) ==
  IF ~getCalendars(sc.list) THEN Raised
  ELSE IF \E k \in 1..Len(sc.reads) : sc.reads[k] = "rejects" THEN Raised
  ELSE Returned(EventsRead(sc.reads))

\* GoogleCalendarClient.getEvents: one events.list call per page
getEventsGoogle(sc) ==
  IF \E k \in 1..Len(sc.reads) : sc.reads[k] # "ok" THEN Raised
  ELSE Returned(EventsRead(sc.reads))

\* AppleCalendarClient.getEvents
getEventsApple(sc) ==
  IF ~ensureInitialized(sc.list) THEN Raised
  ELSE IF sc.reads[1] # "ok" THEN Raised
  ELSE Returned(<<1>>)

NoScenario == [adapter |-> "none", list |-> <<>>, reads |-> <<>>]

(* ---------------------------------------------------------------------- *)
(* initialize(config) and the command handlers                            *)
(* ---------------------------------------------------------------------- *)
\* a field of the configuration is absent, the empty string, or filled in
FieldValues == {"missing", "empty", "set"}

NoSection == [present |-> FALSE]

\* PluginConfig: the dooray section with the two CalDAV credentials, and
\* the optional google and apple sections with their secret
PluginConfigs ==
  [dooray : {NoSection} \cup [present : {TRUE}, username : FieldValues,
                                password : FieldValues],
   google : {NoSection} \cup [present : {TRUE}, refreshToken : FieldValues],
   apple : {NoSection} \cup [present : {TRUE},
                               appSpecificPassword : FieldValues]]

\* new DoorayCalendarClient(config.dooray) reads config.cloud and raises a
\* TypeError when the section is undefined; it looks at no other field
DoorayConstructorRaises(section) == ~section.present

NoEngine == [status |-> "none", clients |-> <<>>, syncing |-> FALSE]

\* initialize(config): the engine with the clients it registered, or a raise
initialize(cfg) ==
  IF DoorayConstructorRaises(cfg.dooray)
  THEN [status |-> "raised", clients |-> <<>>, syncing |-> FALSE]
  ELSE [status |-> "returned",
        clients |-> <<"dooray">>
                    \o (IF cfg.google.present THEN <<"google">> ELSE <<>>)
                    \o (IF cfg.apple.present THEN <<"apple">> ELSE <<>>),
        syncing |-> FALSE]

(* ---------------------------------------------------------------------- *)
(* The cleanup script (cleanup.js)                                        *)
(* ---------------------------------------------------------------------- *)
MaxObjects == 2     \* objects in the calendar the script cleans

\* what the script can find in a calendar object: no data at all, an
\* ordinary event, a start before the year 2000, a title with the padlock
\* prefix, a title with a [calendar] prefix, the "synced" notice in the
\* data, or the PRODID of this tool
ObjectKinds ==
  {"nodata", "plain", "old", "locked", "bracket", "notice", "openclaw"}

Flags == {"--delete", "--all"}

doDeleteOrAll(args) == "--delete" \in args \/ "--all" \in args

\* const doDelete = args.includes("--delete")
doDelete(args) == "--delete" \in args

\* const deleteAll = args.includes("--all")
deleteAll(args) == "--all" \in args

\* the classification loop: the indexes of the objects put on toDelete
toDelete(objects, args) ==
  LET chosen(i) ==
        /\ objects[i] # "nodata"
        /\ \/ deleteAll(args)
           \/ objects[i] \in {"old", "locked", "bracket", "notice",
                               "openclaw"}
  IN SelectSeq([i \in 1..Len(objects) |-> i], chosen)

ScriptRuns ==
  [args : SUBSET Flags,
   credentials : BOOLEAN,
   objects : UNION { [1..n -> ObjectKinds] : n \in 0..MaxObjects },
   storeAtStart : BOOLEAN,
   pos : {"start"},
   di : {1},
   deleteCalls : { <<>> },
   success : {0},
   fail : {0}]

NoScript ==
  [args |-> {}, credentials |-> FALSE, objects |-> <<>>,
   storeAtStart |-> FALSE, pos |-> "none", di |-> 1, deleteCalls |-> <<>>,
   success |-> 0, fail |-> 0]

\* a store file as the engine leaves it
SomeStoreFile == [kind |-> "array", rows |-> <<>>]

(* ---------------------------------------------------------------------- *)
(* Dates of the CalDAV adapters                                           *)
(* ---------------------------------------------------------------------- *)
\* A date text is a sequence of characters.  Date values of JavaScript are
\* modelled by their fields; an instant is counted in seconds since
\* 1970-01-01T00:00:00Z, and the zone of the process is a whole number of
\* hours east of UTC without daylight saving.
Digits == <<"0", "1", "2", "3", "4", "5", "6", "7", "8", "9">>

IsDigit(c) == \E n \in 1..Len(Digits) : Digits[n] = c

\* String(n).padStart(w, "0") for 0 <= n < 10^w
RECURSIVE padStart(_, _)
padStart(n, w) ==
  IF w = 0 THEN <<>>
  ELSE padStart(n \div 10, w - 1) \o <<Digits[(n % 10) + 1]>>

\* Number(text) for a text of digits
RECURSIVE Number(_)
Number(text) ==
  IF text = <<>> THEN 0
  ELSE 10 * Number(SubSeq(text, 1, Len(text) - 1))
       + (CHOOSE n \in 0..9 : Digits[n + 1] = text[Len(text)])

\* text.slice(a, b)
slice(text, a, b) ==
  SubSeq(text, a + 1, IF b < Len(text) THEN b ELSE Len(text))

endsWith(text, c) == text # <<>> /\ text[Len(text)] = c

\* DoorayCalendarClient.parseICalDate
parseICalDateDropsZone(icalDate) ==
  LET digits == SelectSeq(icalDate, IsDigit)
      date == slice(digits, 0, 4) \o <<"-">> \o slice(digits, 4, 6)
              \o <<"-">> \o slice(digits, 6, 8)
      time == slice(digits, 8, 10) \o <<":">> \o slice(digits, 10, 12)
              \o <<":">> \o slice(digits, 12, 14)
  IN IF Len(digits) = 8 THEN date
     ELSE IF Len(digits) >= 14 THEN date \o <<"T">> \o time
     ELSE icalDate

parseICalDate(icalDate) ==
  LET cleaned == icalDate
      digits == SelectSeq(cleaned, IsDigit)
      date == slice(digits, 0, 4) \o <<"-">> \o slice(digits, 4, 6)
              \o <<"-">> \o slice(digits, 6, 8)
      time == slice(digits, 8, 10) \o <<":">> \o slice(digits, 10, 12)
              \o <<":">> \o slice(digits, 12, 14)
      tz == IF endsWith(cleaned, "Z") THEN <<"Z">> ELSE <<>>
  IN IF Len(digits) = 8 THEN date
     ELSE IF Len(digits) >= 14 THEN date \o <<"T">> \o time \o tz
     ELSE cleaned

\* AppleCalendarClient.parseICalDate
parseICalDateApple(icalDate) ==
  LET cleaned == icalDate
      date == slice(cleaned, 0, 4) \o <<"-">> \o slice(cleaned, 4, 6)
              \o <<"-">> \o slice(cleaned, 6, 8)
      time == slice(cleaned, 9, 11) \o <<":">> \o slice(cleaned, 11, 13)
              \o <<":">> \o slice(cleaned, 13, 15)
      tz == IF endsWith(cleaned, "Z") THEN <<"Z">> ELSE <<>>
  IN IF Len(cleaned) = 8 THEN date
     ELSE IF Len(cleaned) >= 15 THEN date \o <<"T">> \o time \o tz
     ELSE cleaned

\* the calendar of Date: days of 1 January of year y since 1970-01-01
DaysBeforeYear(y) ==
  365 * (y - 1970) + ((y - 1969) \div 4) - ((y - 1901) \div 100)
  + ((y - 1601) \div 400)

IsLeap(y) == (y % 4 = 0 /\ y % 100 # 0) \/ y % 400 = 0

DaysBeforeMonth(y, m) ==
  <<0, 31, 59, 90, 120, 151, 181, 212, 243, 273, 304, 334>>[m]
  + (IF IsLeap(y) /\ m > 2 THEN 1 ELSE 0)

\* MakeDay: a day past the end of its month counts on into the next one
DaysFromCivil(y, m, d) == DaysBeforeYear(y) + DaysBeforeMonth(y, m) + d - 1

YearOfDays(days) ==
  CHOOSE y \in 1968..2038 :
    DaysBeforeYear(y) <= days /\ days < DaysBeforeYear(y + 1)

CivilOfDays(days) ==
  LET y == YearOfDays(days)
      rest == days - DaysBeforeYear(y)
      m == CHOOSE k \in 1..12 :
             /\ DaysBeforeMonth(y, k) <= rest
             /\ k = 12 \/ rest < DaysBeforeMonth(y, k + 1)
  IN [y |-> y, m |-> m, d |-> rest - DaysBeforeMonth(y, m) + 1]

InvalidDate ==
  [valid |-> FALSE, y |-> 0, m |-> 0, d |-> 0, h |-> 0, mi |-> 0, s |-> 0,
   utc |-> TRUE]

Shape(text) ==
  [i \in 1..Len(text) |-> IF IsDigit(text[i]) THEN "9" ELSE text[i]]

DayShape == <<"9", "9", "9", "9", "-", "9", "9", "-", "9", "9">>
TimeShape == <<"T", "9", "9", ":", "9", "9", ":", "9", "9">>

\* new Date(text) for a text in one of the ISO forms: a date alone is read
\* as UTC, a date with a time as local time unless it ends in Z
NewDate(text) ==
  LET shape == Shape(text)
      y == Number(slice(text, 0, 4))
      m == Number(slice(text, 5, 7))
      d == Number(slice(text, 8, 10))
      timed == Len(text) > 10
      h == IF timed THEN Number(slice(text, 11, 13)) ELSE 0
      mi == IF timed THEN Number(slice(text, 14, 16)) ELSE 0
      s == IF timed THEN Number(slice(text, 17, 19)) ELSE 0
  IN IF shape \notin {DayShape, DayShape \o TimeShape,
                      DayShape \o TimeShape \o <<"Z">>}
     THEN InvalidDate
     ELSE IF /\ m \in 1..12
             /\ d \in 1..31
             /\ h \in 0..23
             /\ mi \in 0..59
             /\ s \in 0..59
          THEN [valid |-> TRUE, y |-> y, m |-> m, d |-> d, h |-> h,
                mi |-> mi, s |-> s, utc |-> (~timed \/ endsWith(text, "Z"))]
          ELSE InvalidDate

NaN == [nan |-> TRUE, t |-> 0]

\* Date.getTime() in a process offset hours east of UTC
getTime(date, offset) ==
  IF ~date.valid THEN NaN
  ELSE [nan |-> FALSE,
        t |-> DaysFromCivil(date.y, date.m, date.d) * 86400
              + date.h * 3600 + date.mi * 60 + date.s
              - (IF date.utc THEN 0 ELSE offset * 3600)]

\* a >= b on numbers: false when either is NaN
AtLeast(a, b) == ~a.nan /\ ~b.nan /\ a.t >= b.t

\* Date.getFullYear(): the year of the local day the instant falls on
getFullYear(date, offset) ==
  LET local == getTime(date, offset).t + offset * 3600
  IN YearOfDays(local \div 86400)

\* DoorayCalendarClient.isValidDate
isValidDateAnyYear(dateStr, offset) ==
  ~getTime(NewDate(dateStr), offset).nan

isValidDate(dateStr, offset) ==
  LET d == NewDate(dateStr)
  IN ~getTime(d, offset).nan /\ getFullYear(d, offset) >= 2000

\* the day after an all-day start: startTime.split("-").map(Number), then
\* new Date(y, m - 1, d + 1) written with getFullYear, getMonth() + 1 and
\* getDate (a year of four digits)
NextDay(startTime) ==
  LET y == Number(slice(startTime, 0, 4))
      m == Number(slice(startTime, 5, 7))
      d == Number(slice(startTime, 8, 10))
      c == CivilOfDays(DaysFromCivil(y, m, d + 1))
  IN padStart(c.y, 4) \o <<"-">> \o padStart(c.m, 2) \o <<"-">>
     \o padStart(c.d, 2)

\* what a regular expression of parseICalToEvent gives when it finds nothing
NoMatch == <<>>

NoDates == [startTime |-> <<>>, endTime |-> <<>>, isAllDay |-> FALSE]

\* DoorayCalendarClient.parseICalToEvent: the times of the event it makes
\* of a calendar object, NoDates where it returns null
parseICalToEventDates(obj, offset) ==
  IF obj.dtstart = NoMatch THEN NoDates
  ELSE LET isAllDay == "T" \notin Range(obj.dtstart)
           startTime == parseICalDate(obj.dtstart)
           endTime == IF obj.dtend # NoMatch THEN parseICalDate(obj.dtend)
                      ELSE NoMatch
       IN IF ~isValidDate(startTime, offset) THEN NoDates
          ELSE [startTime |-> startTime,
                endTime |->
                  IF endTime = NoMatch \/ ~isValidDate(endTime, offset)
                  THEN IF isAllDay THEN NextDay(startTime) ELSE startTime
                  ELSE endTime,
                isAllDay |-> isAllDay]

\* the filter of DoorayCalendarClient.getEvents
InWindowStartsInside(evt, from, to, offset) ==
  /\ evt # NoDates
  /\ AtLeast(getTime(NewDate(evt.startTime), offset),
             getTime(NewDate(from), offset))
  /\ AtLeast(getTime(NewDate(to), offset),
             getTime(NewDate(evt.startTime), offset))

InWindow(evt, from, to, offset) ==
  /\ evt # NoDates
  /\ LET fromTime == getTime(NewDate(from), offset)
         toTime == getTime(NewDate(to), offset)
         eventStart == getTime(NewDate(evt.startTime), offset)
         eventEnd == getTime(NewDate(evt.endTime), offset)
     IN AtLeast(eventEnd, fromTime) /\ AtLeast(toTime, eventStart)

\* DoorayCalendarClient.getEvents once the calendar objects are fetched
getEventsInWindow(objects, from, to, offset) ==
  LET events == [i \in 1..Len(objects) |->
                   parseICalToEventDates(objects[i], offset)]
      kept(evt) == InWindow(evt, from, to, offset)
  IN SelectSeq(events, kept)

\* the days, times of day and zones the inputs are made of
Civils ==
  { [y |-> y, m |-> md[1], d |-> md[2]] :
      y \in {1970, 1999, 2000, 2026},
      md \in { <<1, 1>>, <<2, 15>>, <<12, 31>> } }

Clocks == { <<0, 0, 0>>, <<23, 59, 59>> }

Offsets == { 0 - 5, 0, 9 }

IsoDay(c) ==
  padStart(c.y, 4) \o <<"-">> \o padStart(c.m, 2) \o <<"-">>
  \o padStart(c.d, 2)

IsoTime(t) ==
  <<"T">> \o padStart(t[1], 2) \o <<":">> \o padStart(t[2], 2) \o <<":">>
  \o padStart(t[3], 2)

\* 'YYYY-MM-DD', 'YYYY-MM-DDTHH:MM:SS' and 'YYYY-MM-DDTHH:MM:SSZ'
IsoDates ==
  { IsoDay(c) : c \in Civils }
  \cup { IsoDay(c) \o IsoTime(t) \o z :
           c \in Civils, t \in Clocks, z \in { <<>>, <<"Z">> } }

AllZero == <<"0", "0", "0", "0", "0", "0", "0", "0">>

\* what the DTSTART and DTEND expressions can capture
ICalDates == { toICalDate(d) : d \in IsoDates } \cup { AllZero }

\* the windows sync() asks for: toISOString() of two instants
Windows ==
  { [from |-> IsoDay(w[1]) \o IsoTime(w[2]) \o <<"Z">>,
     to |-> IsoDay(w[3]) \o IsoTime(w[4]) \o <<"Z">>] :
      w \in { << [y |-> 2026, m |-> 2, d |-> 15], <<0, 0, 0>>,
                 [y |-> 2026, m |-> 2, d |-> 15], <<23, 59, 59>> >>,
              << [y |-> 2026, m |-> 2, d |-> 15], <<23, 59, 59>>,
                 [y |-> 2026, m |-> 12, d |-> 31], <<0, 0, 0>> >>,
              << [y |-> 2000, m |-> 1, d |-> 1], <<0, 0, 0>>,
                 [y |-> 2026, m |-> 1, d |-> 1], <<0, 0, 0>> >> } }

WindowRuns ==
  { [offset |-> o, from |-> w.from, to |-> w.to,
     objects |-> <<[dtstart |-> s, dtend |-> e]>>,
     events |-> <<>>, called |-> FALSE] :
      o \in Offsets, w \in Windows,
      s \in ICalDates \cup {NoMatch}, e \in ICalDates \cup {NoMatch} }

NoWindow ==
  [offset |-> 0, from |-> <<>>, to |-> <<>>, objects |-> <<>>,
   events |-> <<>>, called |-> FALSE]

Conversions ==
  [iso : IsoDates, ical : { <<>> }, dooray : { <<>> }, apple : { <<>> }]

NoConv == [iso |-> <<>>, ical |-> <<>>, dooray |-> <<>>, apple |-> <<>>]

(* ---------------------------------------------------------------------- *)
(* The plugin entry: register(api) and its two tools                      *)
(* ---------------------------------------------------------------------- *)
MaxExecs == 3       \* tool executions the host starts

Tools == {"calendar_sync", "calendar_status"}

\* var engine = null
NullEngine == 0

IdleExec == [pc |-> "idle", tool |-> "calendar_sync", eng |-> NullEngine]

\* one registration: whether ./dist/index.js loads, whether config.dooray is
\* set, the variable engine of the closure, the engines initialize has
\* built, those whose sync() an execution has called, and the executions
Hosts ==
  [dist : BOOLEAN, dooray : BOOLEAN, engine : {NullEngine}, made : {0},
   synced : { {} }, execs : { [e \in 1..MaxExecs |-> IdleExec] }]

NoHost ==
  [dist |-> FALSE, dooray |-> FALSE, engine |-> NullEngine, made |-> 0,
   synced |-> {}, execs |-> <<>>]

\* getEngine() up to its first await or its return: what it hands back at
\* once (pending FALSE) or the engine the initialize call it started has
\* built (pending TRUE)
getEngine(h) ==
  IF h.engine # NullEngine THEN [pending |-> FALSE, eng |-> h.engine]
  ELSE IF h.dist /\ h.dooray
       THEN [pending |-> TRUE, eng |-> h.made + 1]
       ELSE [pending |-> FALSE, eng |-> NullEngine]

(* ---------------------------------------------------------------------- *)
(* State                                                                  *)
(* ---------------------------------------------------------------------- *)
VARIABLES
  clients,      \* SyncEngine.clients: registered calendars, insertion order
  remote,       \* the events each calendar backend holds inside the window
  mappings,     \* SyncStore.mappings
  pc,           \* position of sync(): idle, fetch, propagate, cleanup, done
  fi,           \* index of the fetch loop into clients
  allEvents,    \* sync(): allEvents, the fetched list of each calendar
  fetched,      \* keys of allEvents in insertion order
  work,         \* remaining visits of the current loop nest
  wi,           \* index into work
  result,       \* totalResult
  calls,        \* adapter calls issued by the current run, in order
  storeAtStart, \* SyncStore.mappings when the current run started
  clock,        \* wall clock read by new Date()
  runs,         \* sync runs started
  nextId,       \* next id a backend hands out on createEvent
  nextUser,     \* per calendar, the next id of a user-authored event
  userOps,      \* edits and removals the owner has made so far
  cleanRun,     \* the last completed run had no raising call and nobody
                \* has touched a calendar since
  failedDeletes,\* rows whose deleteEvent raised in an earlier run and has
                \* not succeeded since
  faults,       \* adapter calls that have raised so far
  probe,        \* an adapter with the event and visibility it is asked to
                \* write
  written,      \* the object the adapter built for the backend
  parsed,       \* the event the adapter's getEvents makes of that object
  file,         \* the store file (.sync-store.json)
  diskOk,       \* writeFileSync on the store file succeeds
  broken,       \* SyncStore.mappings holds a value that is not an array
  loaded,       \* what the last SyncStore constructor found in the file
  hist,         \* what has happened to the process and to the file so far
  atKill,       \* the mapping list before and after the last mutating call
                \* the process started, as it was when the process died
  lineage,      \* for each id createEvent has returned, where the mirror
                \* comes from and how it was written
  lostRows,     \* keys of the rows the store has lost or dropped so far
  failedWrites, \* the createEvent and updateEvent calls that raised in the
                \* last run that returned, with the event as it was fetched
  reads,        \* an adapter with the outcomes of the backend reads that
                \* its getEvents will make
  got,          \* what that getEvents call returned, or that it raised
  config,       \* the PluginConfig handed to initialize
  engine,       \* what initialize gave back, and whether its sync() runs
  script,       \* one invocation of the cleanup script: its arguments, the
                \* calendar it finds and how far main() has come
  window,       \* one getEvents(from, to) call of the Dooray adapter: the
                \* zone of the process, the window, the calendar objects
                \* the backend holds and the events the call returned
  conv,         \* a date text and what the CalDAV adapters make of it by
                \* toICalDate and then parseICalDate
  host          \* one registration of the plugin with its tool executions

vars == <<clients, remote, mappings, pc, fi, allEvents, fetched, work, wi,
          result, calls, storeAtStart, clock, runs, nextId, nextUser,
          userOps, cleanRun, failedDeletes, faults, probe, written, parsed,
          file,
          diskOk, broken, loaded, hist, atKill, lineage, lostRows,
          failedWrites, reads,
          got, config, engine, script, window, conv, host>>

engineVars == <<clients, remote, mappings, pc, fi, allEvents, fetched, work,
                wi, result, calls, storeAtStart, clock, runs, nextId,
                nextUser, userOps, cleanRun, failedDeletes, faults>>

adapterVars == <<probe, written, parsed>>

readVars == <<reads, got>>

initVars == <<config, engine>>

scriptVars == <<script>>

dateVars == <<window, conv>>

hostVars == <<host>>

sideVars == <<readVars, initVars, scriptVars, dateVars, hostVars>>

diskVars == <<file, diskOk, broken, loaded, hist, atKill>>

ghostVars == <<lineage, lostRows, failedWrites>>

runVars == <<fi, allEvents, fetched, work, wi, result, calls, storeAtStart>>

\* no process has died yet
NoKill == [before |-> <<>>, after |-> <<>>]

\* createEvent has not returned this id yet
NoLineage == [sourceId |-> NoId]

\* the calendar in which the event a mirror descends from was authored
Root(sourceId, source) ==
  IF sourceId[1] = "m" THEN lineage[sourceId[2]].root ELSE source

\* where the mirror comes from that createEvent makes for a visit of the
\* propagation loops, and whether it is written as public
Mirror(it) ==
  [sourceId |-> it.event.sourceId, source |-> it.source,
   target |-> it.target, root |-> Root(it.event.sourceId, it.source),
   public |-> it.visibility = "public"]

\* the key of a mapping row
KeyOf(m) == [sourceId |-> m.sourceId, source |-> m.source, target |-> m.target]

EngineInit ==
  /\ clients \in Registrations
  /\ remote = [c \in CalendarSource |-> {}]
  /\ mappings = <<>>
  /\ pc = "idle"
  /\ fi = 1
  /\ allEvents = [c \in CalendarSource |-> <<>>]
  /\ fetched = <<>>
  /\ work = <<>>
  /\ wi = 1
  /\ result = EmptyResult
  /\ calls = <<>>
  /\ storeAtStart = <<>>
  /\ clock = 0
  /\ runs = 0
  /\ nextId = 1
  /\ nextUser = [c \in CalendarSource |-> 1]
  /\ userOps = 0
  /\ cleanRun = FALSE
  /\ failedDeletes = {}
  /\ faults = 0
  /\ file = NoFile
  /\ diskOk = TRUE
  /\ broken = FALSE
  /\ loaded = "missing"
  /\ hist = {}
  /\ atKill = NoKill
  /\ lineage = [n \in 1..MaxMirrors |-> NoLineage]
  /\ lostRows = {}
  /\ failedWrites = {}

\* no date is being read and no plugin is registered
LateIdle ==
  /\ window = NoWindow
  /\ conv = NoConv
  /\ host = NoHost

\* nothing outside the engine is in use
SideInit ==
  /\ reads = NoScenario
  /\ got = NotCalled
  /\ config = [dooray |-> NoSection, google |-> NoSection,
               apple |-> NoSection]
  /\ engine = NoEngine
  /\ script = NoScript
  /\ LateIdle

Init ==
  /\ EngineInit
  /\ SideInit
  /\ probe = NoProbe
  /\ written = NoObject
  /\ parsed = NoEvent

(* ---------------------------------------------------------------------- *)
(* Helpers of the actions                                                 *)
(* ---------------------------------------------------------------------- *)
\* one adapter call: the client it was made on, its arguments (for a write,
\* the event's sourceId, source and own visibility field, and the visibility
\* argument) and whether it returned (ok) or raised
Call(op, cal, targetId, sourceId, source, eventVisibility, visibility, ok) ==
  [op |-> op, cal |-> cal, targetId |-> targetId, sourceId |-> sourceId,
   source |-> source, eventVisibility |-> eventVisibility,
   visibility |-> visibility, ok |-> ok]

\* the visibility field the adapter of a calendar puts on a parsed event
ParsedVisibility(cal) == IF cal = "dooray" THEN "public" ELSE "private"

\* parseICalToEvent / toCalendarEvent: the normalized event of a backend
\* object
ToCalendarEvent(cal, o) ==
  [sourceId |-> o.sourceId, updatedAt |-> o.updatedAt,
   visibility |-> ParsedVisibility(cal)]

\* the updatedAt an adapter reads back from an object the engine wrote:
\* Google stamps every event with "updated"; the iCal text toICal builds has
\* no LAST-MODIFIED line, so the CalDAV adapters read back ""
WrittenStamp(cal) == IF cal = "google" THEN 1 ELSE NoStamp

\* where sync() stands once the propagation loops are over
\* (with a store that holds no array, the first findMappingsByTarget call of
\* cleanupDeletedEvents raises outside every try)
AfterPropagate(ae, fs, cl, maps) ==
  LET cw == CleanupWork(ae, fs, cl, maps)
  IN IF broken /\ \E i \in 1..Len(fs) : TargetsOf(fs[i], cl) # <<>>
     THEN [pc |-> "raised", work |-> <<>>]
     ELSE IF cw # <<>> THEN [pc |-> "cleanup", work |-> cw]
     ELSE [pc |-> "done", work |-> <<>>]

\* where sync() stands once the fetch loop is over
AfterFetch(ae, fs, cl, maps) ==
  LET pw == PropWork(ae, fs, cl)
  IN IF pw # <<>>
     THEN [pc |-> IF broken THEN "propagateBroken" ELSE "propagate",
           work |-> pw]
     ELSE AfterPropagate(ae, fs, cl, maps)

Goto(next) == pc' = next.pc /\ work' = next.work /\ wi' = 1

\* the fetch loop moves to the next client, or the propagation loops start
FetchAdvance(ae, fs) ==
  IF fi < Len(clients)
  THEN fi' = fi + 1 /\ UNCHANGED <<pc, work, wi>>
  ELSE fi' = fi /\ Goto(AfterFetch(ae, fs, clients, mappings))

\* an event loop whose try/catch sits around the loops: the first call that
\* raises ends the propagation
PropAdvanceAbortOnRaise(maps, raised) ==
  IF wi < Len(work) /\ ~raised
  THEN wi' = wi + 1 /\ UNCHANGED <<pc, work>>
  ELSE Goto(AfterPropagate(allEvents, fetched, clients, maps))

\* an engine that gives up an event on every edge once a call for it has
\* raised on one edge
PropAdvanceSkipEvent(maps, raised) ==
  LET it == work[wi]
      other(w) == ~(w.source = it.source
                    /\ w.event.sourceId = it.event.sourceId)
      rest == SubSeq(work, wi + 1, Len(work))
      kept == IF raised THEN SelectSeq(rest, other) ELSE rest
  IN IF kept # <<>>
     THEN /\ work' = SubSeq(work, 1, wi) \o kept
          /\ wi' = wi + 1
          /\ UNCHANGED pc
     ELSE Goto(AfterPropagate(allEvents, fetched, clients, maps))

\* the event loop of syncEventsToTarget after an iteration that returned or
\* raised: it moves to the next event, or cleanup starts
PropAdvance(maps, raised) ==
  IF wi < Len(work)
  THEN wi' = wi + 1 /\ UNCHANGED <<pc, work>>
  ELSE Goto(AfterPropagate(allEvents, fetched, clients, maps))

\* an engine that goes through the propagation loops once more after
\* cleanup
CleanupAdvanceThenPropagate ==
  IF wi < Len(work)
  THEN wi' = wi + 1 /\ UNCHANGED <<pc, work>>
  ELSE LET pw == PropWork(allEvents, fetched, clients)
       IN Goto(IF pw # <<>> THEN [pc |-> "propagate", work |-> pw]
               ELSE [pc |-> "done", work |-> <<>>])

\* the mapping loop of cleanupDeletedEvents moves on, or sync() returns
CleanupAdvance ==
  IF wi < Len(work)
  THEN wi' = wi + 1 /\ UNCHANGED <<pc, work>>
  ELSE Goto([pc |-> "done", work |-> <<>>])

Exists(cal, id) == \E o \in remote[cal] : o.sourceId = id

(* ---------------------------------------------------------------------- *)
(* The owner of the calendars, between runs                               *)
(* ---------------------------------------------------------------------- *)
UserCount == nextUser["dooray"] + nextUser["google"] + nextUser["apple"] - 3

UserAdd ==
  /\ pc = "idle"
  /\ UserCount < MaxUser
  /\ \E c \in Range(clients), st \in {NoStamp, 1} :
       /\ remote' = [remote EXCEPT ![c] = @ \cup
                      {[sourceId |-> UserId(nextUser[c]), updatedAt |-> st]}]
       /\ nextUser' = [nextUser EXCEPT ![c] = @ + 1]
  /\ cleanRun' = FALSE
  /\ UNCHANGED <<clients, mappings, pc, clock, runs, nextId, userOps,
                 failedDeletes, faults>>
  /\ UNCHANGED runVars
  /\ UNCHANGED adapterVars
  /\ UNCHANGED sideVars
  /\ UNCHANGED diskVars
  /\ UNCHANGED ghostVars

UserEdit ==
  /\ pc = "idle"
  /\ userOps < MaxUserOps
  /\ \E c \in Range(clients) : \E e \in remote[c] :
       /\ e.updatedAt < MaxStamp
       /\ remote' = [remote EXCEPT ![c] = (@ \ {e}) \cup
                       {[e EXCEPT !.updatedAt = @ + 1]}]
  /\ userOps' = userOps + 1
  /\ cleanRun' = FALSE
  /\ UNCHANGED <<clients, mappings, pc, clock, runs, nextId, nextUser,
                 failedDeletes, faults>>
  /\ UNCHANGED runVars
  /\ UNCHANGED adapterVars
  /\ UNCHANGED sideVars
  /\ UNCHANGED diskVars
  /\ UNCHANGED ghostVars

UserDelete ==
  /\ pc = "idle"
  /\ userOps < MaxUserOps
  /\ \E c \in Range(clients) : \E e \in remote[c] :
       remote' = [remote EXCEPT ![c] = @ \ {e}]
  /\ userOps' = userOps + 1
  /\ cleanRun' = FALSE
  /\ UNCHANGED <<clients, mappings, pc, clock, runs, nextId, nextUser,
                 failedDeletes, faults>>
  /\ UNCHANGED runVars
  /\ UNCHANGED adapterVars
  /\ UNCHANGED sideVars
  /\ UNCHANGED diskVars
  /\ UNCHANGED ghostVars

(* ---------------------------------------------------------------------- *)
(* SyncEngine.sync()                                                      *)
(* ---------------------------------------------------------------------- *)
StartSync ==
  /\ pc = "idle"
  /\ runs < MaxRuns
  /\ pc' = "fetch"
  /\ fi' = 1
  /\ allEvents' = [c \in CalendarSource |-> <<>>]
  /\ fetched' = <<>>
  /\ work' = <<>>
  /\ wi' = 1
  /\ result' = EmptyResult
  /\ calls' = <<>>
  /\ storeAtStart' = mappings
  /\ clock' = clock + 1
  /\ runs' = runs + 1
  /\ UNCHANGED <<clients, remote, mappings, nextId, nextUser, userOps, cleanRun,
                 failedDeletes, faults>>
  /\ UNCHANGED adapterVars
  /\ UNCHANGED sideVars
  /\ UNCHANGED diskVars
  /\ UNCHANGED ghostVars

FetchOk ==
  /\ pc = "fetch"
  /\ LET source == clients[fi]
     IN \E events \in Orders({ ToCalendarEvent(source, o) :
                                 o \in remote[source] }) :
          /\ allEvents' = [allEvents EXCEPT ![source] = events]
          /\ fetched' = Append(fetched, source)
          /\ calls' = Append(calls, Call("getEvents", source, NoId, NoId,
                                         source, "none", "none", TRUE))
          /\ FetchAdvance(allEvents', fetched')
  /\ UNCHANGED <<clients, remote, mappings, result, storeAtStart, clock, runs,
                 nextId, nextUser, userOps, cleanRun, failedDeletes, faults>>
  /\ UNCHANGED adapterVars
  /\ UNCHANGED sideVars
  /\ UNCHANGED diskVars
  /\ UNCHANGED ghostVars

FetchFail ==
  /\ pc = "fetch"
  /\ faults < MaxFaults
  /\ faults' = faults + 1
  /\ LET source == clients[fi]
     IN /\ result' = [result EXCEPT !.errors =
                        PushError(@, NoId, source, source, "fetch")]
        /\ calls' = Append(calls, Call("getEvents", source, NoId, NoId,
                                       source, "none", "none", FALSE))
        /\ FetchAdvance(allEvents, fetched)
  /\ UNCHANGED <<clients, remote, mappings, allEvents, fetched, storeAtStart,
                 clock, runs, nextId, nextUser, userOps, cleanRun, failedDeletes>>
  /\ UNCHANGED adapterVars
  /\ UNCHANGED sideVars
  /\ UNCHANGED diskVars
  /\ UNCHANGED ghostVars

\* syncEventsToTarget, "else" branch: createEvent returned
CreateOk ==
  /\ pc = "propagate"
  /\ nextId <= MaxMirrors
  /\ LET it == work[wi]
         existing == findMapping(mappings, it.event.sourceId, it.source,
                                 it.target)
         targetId == MirrorId(nextId)
     IN /\ existing = NoMapping
        /\ remote' = [remote EXCEPT ![it.target] = @ \cup
                        {[sourceId |-> targetId,
                          updatedAt |-> WrittenStamp(it.target)]}]
        /\ mappings' = upsertMapping(mappings,
                         [sourceId |-> it.event.sourceId,
                          source |-> it.source,
                          targetId |-> targetId,
                          target |-> it.target,
                          lastSyncedAt |-> clock,
                          sourceUpdatedAt |-> it.event.updatedAt])
        /\ file' = save(file, mappings', diskOk)
        /\ lineage' = [lineage EXCEPT ![nextId] = Mirror(it)]
        /\ result' = Outcome(result, "created", it.event.sourceId,
                             it.source, it.target, "write",
                             saveRaises(diskOk))
        /\ calls' = Append(calls, Call("createEvent", it.target, targetId,
                                       it.event.sourceId, it.source,
                                       it.event.visibility, it.visibility,
                                       TRUE))
        /\ PropAdvance(mappings', FALSE)
  /\ nextId' = nextId + 1
  /\ UNCHANGED <<clients, fi, allEvents, fetched, storeAtStart, clock, runs,
                 nextUser, userOps, cleanRun, failedDeletes, faults>>
  /\ UNCHANGED adapterVars
  /\ UNCHANGED sideVars
  /\ UNCHANGED <<diskOk, broken, loaded, hist, atKill, lostRows,
                 failedWrites>>

\* syncEventsToTarget, "else" branch: createEvent raised
CreateFail ==
  /\ pc = "propagate"
  /\ faults < MaxFaults
  /\ faults' = faults + 1
  /\ LET it == work[wi]
         existing == findMapping(mappings, it.event.sourceId, it.source,
                                 it.target)
     IN /\ existing = NoMapping
        /\ result' = [result EXCEPT !.errors =
                        PushError(@, it.event.sourceId, it.source, it.target,
                                  "write")]
        /\ calls' = Append(calls, Call("createEvent", it.target, NoId,
                                       it.event.sourceId, it.source,
                                       it.event.visibility, it.visibility,
                                       FALSE))
        /\ mappings' = AfterWriteRaised(mappings,
                         [sourceId |-> it.event.sourceId,
                          source |-> it.source,
                          targetId |-> NoId,
                          target |-> it.target,
                          lastSyncedAt |-> clock,
                          sourceUpdatedAt |-> it.event.updatedAt])
        /\ PropAdvance(mappings', TRUE)
  /\ UNCHANGED <<clients, remote, fi, allEvents, fetched,
                 storeAtStart, clock, runs, nextId, nextUser, userOps, cleanRun,
                 failedDeletes>>
  /\ UNCHANGED adapterVars
  /\ UNCHANGED sideVars
  /\ UNCHANGED diskVars
  /\ UNCHANGED ghostVars

\* what the backend holds after a write to the object targetId: a stamped
\* object gets a new modification token while tokens are left
Touch(objs, targetId) ==
  { IF o.sourceId = targetId /\ o.updatedAt # NoStamp
       /\ o.updatedAt < MaxStamp
    THEN [o EXCEPT !.updatedAt = @ + 1] ELSE o : o \in objs }

\* syncEventsToTarget, "if (needsUpdate)" branch: updateEvent returned
UpdateOk ==
  /\ pc = "propagate"
  /\ LET it == work[wi]
         existing == findMapping(mappings, it.event.sourceId, it.source,
                                 it.target)
     IN /\ existing # NoMapping
        /\ needsUpdate(it.event, existing)
        /\ remote' = [remote EXCEPT ![it.target] =
                        Touch(@, existing.targetId)]
        /\ mappings' = upsertMapping(mappings,
                         UpdatedRow(existing, it.event, clock))
        /\ file' = save(file, mappings', diskOk)
        /\ lineage' = [lineage EXCEPT ![existing.targetId[2]].public =
                         @ \/ it.visibility = "public"]
        /\ result' = Outcome(result, "updated", it.event.sourceId,
                             it.source, it.target, "write",
                             saveRaises(diskOk))
        /\ calls' = Append(calls, Call("updateEvent", it.target,
                                       existing.targetId, it.event.sourceId,
                                       it.source, it.event.visibility,
                                       it.visibility, TRUE))
        /\ PropAdvance(mappings', FALSE)
  /\ UNCHANGED <<clients, fi, allEvents, fetched, storeAtStart, clock, runs,
                 nextId, nextUser, userOps, cleanRun, failedDeletes, faults>>
  /\ UNCHANGED adapterVars
  /\ UNCHANGED sideVars
  /\ UNCHANGED <<diskOk, broken, loaded, hist, atKill, lostRows,
                 failedWrites>>

\* syncEventsToTarget, "if (needsUpdate)" branch: updateEvent raised
UpdateFail ==
  /\ pc = "propagate"
  /\ faults < MaxFaults
  /\ faults' = faults + 1
  /\ LET it == work[wi]
         existing == findMapping(mappings, it.event.sourceId, it.source,
                                 it.target)
     IN /\ existing # NoMapping
        /\ needsUpdate(it.event, existing)
        /\ result' = [result EXCEPT !.errors =
                        PushError(@, it.event.sourceId, it.source, it.target,
                                  "write")]
        /\ calls' = Append(calls, Call("updateEvent", it.target,
                                       existing.targetId, it.event.sourceId,
                                       it.source, it.event.visibility,
                                       it.visibility, FALSE))
        /\ mappings' = AfterWriteRaised(mappings,
                         UpdatedRow(existing, it.event, clock))
        /\ PropAdvance(mappings', TRUE)
  /\ UNCHANGED <<clients, remote, fi, allEvents, fetched,
                 storeAtStart, clock, runs, nextId, nextUser, userOps, cleanRun,
                 failedDeletes>>
  /\ UNCHANGED adapterVars
  /\ UNCHANGED sideVars
  /\ UNCHANGED diskVars
  /\ UNCHANGED ghostVars

\* syncEventsToTarget: a mapping exists and needsUpdate is falsy
SkipUnchanged ==
  /\ pc = "propagate"
  /\ LET it == work[wi]
         existing == findMapping(mappings, it.event.sourceId, it.source,
                                 it.target)
     IN /\ existing # NoMapping
        /\ ~needsUpdate(it.event, existing)
        /\ PropAdvance(mappings, FALSE)
  /\ UNCHANGED <<clients, remote, mappings, fi, allEvents, fetched, result,
                 calls, storeAtStart, clock, runs, nextId, nextUser, userOps, cleanRun,
                 failedDeletes, faults>>
  /\ UNCHANGED adapterVars
  /\ UNCHANGED sideVars
  /\ UNCHANGED diskVars
  /\ UNCHANGED ghostVars

\* cleanupDeletedEvents: deleteEvent returned
DeleteOk ==
  /\ pc = "cleanup"
  /\ LET it == work[wi]
     IN /\ remote' = [remote EXCEPT ![it.target] =
                        { o \in @ : o.sourceId # it.mapping.targetId }]
        /\ mappings' = AfterDelete(mappings, it.mapping, TRUE)
        /\ file' = save(file, mappings', diskOk)
        /\ lostRows' = lostRows \cup {KeyOf(it.mapping)}
        /\ result' = Outcome(result, "deleted", it.mapping.sourceId,
                             it.source, it.target, "delete",
                             saveRaises(diskOk))
        /\ calls' = Append(calls, Call("deleteEvent", it.target,
                                       it.mapping.targetId,
                                       it.mapping.sourceId, it.source,
                                       "none", "none", TRUE))
        /\ CleanupAdvance
  /\ UNCHANGED <<clients, fi, allEvents, fetched, storeAtStart, clock, runs,
                 nextId, nextUser, userOps, cleanRun, failedDeletes, faults>>
  /\ UNCHANGED adapterVars
  /\ UNCHANGED sideVars
  /\ UNCHANGED <<diskOk, broken, loaded, hist, atKill, lineage,
                 failedWrites>>

\* cleanupDeletedEvents: deleteEvent raised
DeleteFail ==
  /\ pc = "cleanup"
  /\ faults < MaxFaults
  /\ faults' = faults + 1
  /\ LET it == work[wi]
     IN /\ mappings' = AfterDelete(mappings, it.mapping, FALSE)
        /\ result' = [result EXCEPT !.errors =
                        PushError(@, it.mapping.sourceId, it.source,
                                  it.target, "delete")]
        /\ calls' = Append(calls, Call("deleteEvent", it.target,
                                       it.mapping.targetId,
                                       it.mapping.sourceId, it.source,
                                       "none", "none", FALSE))
        /\ CleanupAdvance
  /\ UNCHANGED <<clients, remote, fi, allEvents, fetched, storeAtStart,
                 clock, runs, nextId, nextUser, userOps, cleanRun, failedDeletes>>
  /\ UNCHANGED adapterVars
  /\ UNCHANGED sideVars
  /\ UNCHANGED diskVars
  /\ UNCHANGED ghostVars

RowKey(sourceId, source, target, targetId) ==
  [sourceId |-> sourceId, source |-> source, target |-> target,
   targetId |-> targetId]

DeleteKeys(ok) ==
  { RowKey(c.sourceId, c.source, c.cal, c.targetId) :
      c \in { d \in Range(calls) : d.op = "deleteEvent" /\ d.ok = ok } }

\* the createEvent and updateEvent calls of the run that raised, each with
\* the updatedAt of the event it was made for
WritesRaised ==
  { [op |-> c.op, sourceId |-> c.sourceId, source |-> c.source,
     target |-> c.cal,
     updatedAt |-> (CHOOSE e \in Range(allEvents[c.source]) :
                      e.sourceId = c.sourceId).updatedAt] :
      c \in { d \in Range(calls) :
                d.op \in {"createEvent", "updateEvent"} /\ ~d.ok } }

\* sync() returns totalResult to its caller
Return ==
  /\ pc = "done"
  /\ pc' = "idle"
  /\ cleanRun' = (\A i \in 1..Len(calls) : calls[i].ok)
  /\ failedDeletes' = (failedDeletes \ DeleteKeys(TRUE)) \cup DeleteKeys(FALSE)
  /\ fi' = 1
  /\ allEvents' = [c \in CalendarSource |-> <<>>]
  /\ fetched' = <<>>
  /\ work' = <<>>
  /\ wi' = 1
  /\ result' = EmptyResult
  /\ calls' = <<>>
  /\ storeAtStart' = <<>>
  /\ UNCHANGED <<clients, remote, mappings, clock, runs, nextId, nextUser,
                 userOps, faults>>
  /\ UNCHANGED adapterVars
  /\ UNCHANGED sideVars
  /\ UNCHANGED diskVars
  /\ UNCHANGED <<lineage, lostRows>>
  /\ failedWrites' = WritesRaised

Next ==
  \/ UserAdd
  \/ UserEdit
  \/ UserDelete
  \/ StartSync
  \/ FetchOk
  \/ FetchFail
  \/ CreateOk
  \/ CreateFail
  \/ UpdateOk
  \/ UpdateFail
  \/ SkipUnchanged
  \/ DeleteOk
  \/ DeleteFail
  \/ Return

Spec == Init /\ [][Next]_vars

\* getEvents of a client other than the repository's adapters: the
\* CalendarClient interface lets it put any EventVisibility on an event
FetchOkAnyClient ==
  /\ pc = "fetch"
  /\ LET source == clients[fi]
     IN \E v \in EventVisibility :
        \E events \in Orders({ [ToCalendarEvent(source, o)
                                  EXCEPT !.visibility = v] :
                                 o \in remote[source] }) :
          /\ allEvents' = [allEvents EXCEPT ![source] = events]
          /\ fetched' = Append(fetched, source)
          /\ calls' = Append(calls, Call("getEvents", source, NoId, NoId,
                                         source, "none", "none", TRUE))
          /\ FetchAdvance(allEvents', fetched')
  /\ UNCHANGED <<clients, remote, mappings, result, storeAtStart, clock, runs,
                 nextId, nextUser, userOps, cleanRun, failedDeletes, faults>>
  /\ UNCHANGED adapterVars
  /\ UNCHANGED sideVars
  /\ UNCHANGED diskVars
  /\ UNCHANGED ghostVars

NextAnyClient ==
  \/ UserAdd
  \/ UserEdit
  \/ UserDelete
  \/ StartSync
  \/ FetchOkAnyClient
  \/ FetchFail
  \/ CreateOk
  \/ CreateFail
  \/ UpdateOk
  \/ UpdateFail
  \/ SkipUnchanged
  \/ DeleteOk
  \/ DeleteFail
  \/ Return

\* the engine driven by clients that tag fetched events freely
SpecAnyClient == Init /\ [][NextAnyClient]_vars

(* ---------------------------------------------------------------------- *)
(* A mirror that disappears from its calendar behind the engine's back    *)
(* ---------------------------------------------------------------------- *)
\* the object a mapping row points to is removed from the target calendar
\* by somebody else than the engine, once per behaviour; the row stays
MirrorVanishes ==
  /\ pc = "idle"
  /\ "vanished" \notin hist
  /\ \E i \in 1..Len(mappings) :
       /\ Exists(mappings[i].target, mappings[i].targetId)
       /\ remote' = [remote EXCEPT ![mappings[i].target] =
                       { o \in @ : o.sourceId # mappings[i].targetId }]
  /\ hist' = hist \cup {"vanished"}
  /\ cleanRun' = FALSE
  /\ UNCHANGED <<clients, mappings, pc, clock, runs, nextId, nextUser,
                 userOps, failedDeletes, faults>>
  /\ UNCHANGED runVars
  /\ UNCHANGED adapterVars
  /\ UNCHANGED sideVars
  /\ UNCHANGED <<file, diskOk, broken, loaded, atKill>>
  /\ UNCHANGED ghostVars

NextStale == Next \/ MirrorVanishes

SpecStale == Init /\ [][NextStale]_vars

(* ---------------------------------------------------------------------- *)
(* The store file, the disk and the process                               *)
(* ---------------------------------------------------------------------- *)
\* the store file is removed (the cleanup script unlinks it), made
\* unreadable, or overwritten with text that is no JSON or no JSON array
FileChange ==
  /\ pc = "idle"
  /\ faults < MaxFaults
  /\ faults' = faults + 1
  /\ \E kind \in FileKinds \ {"array"} :
       /\ file' = [kind |-> kind, rows |-> <<>>]
       /\ hist' = hist \cup {kind}
  /\ cleanRun' = FALSE
  /\ UNCHANGED <<clients, remote, mappings, pc, clock, runs, nextId, nextUser,
                 userOps, failedDeletes>>
  /\ UNCHANGED runVars
  /\ UNCHANGED adapterVars
  /\ UNCHANGED sideVars
  /\ UNCHANGED <<diskOk, broken, loaded, atKill>>
  /\ UNCHANGED ghostVars

\* writes to the store file start to fail (disk full, read-only directory)
DiskFault ==
  /\ pc = "idle"
  /\ diskOk
  /\ faults < MaxFaults
  /\ faults' = faults + 1
  /\ diskOk' = FALSE
  /\ hist' = hist \cup {"diskfault"}
  /\ UNCHANGED <<clients, remote, mappings, pc, clock, runs, nextId, nextUser,
                 userOps, cleanRun, failedDeletes>>
  /\ UNCHANGED runVars
  /\ UNCHANGED adapterVars
  /\ UNCHANGED sideVars
  /\ UNCHANGED <<file, broken, loaded, atKill>>
  /\ UNCHANGED ghostVars

\* writes to the store file succeed again
DiskRepair ==
  /\ pc = "idle"
  /\ ~diskOk
  /\ diskOk' = TRUE
  /\ UNCHANGED <<clients, remote, mappings, pc, clock, runs, nextId, nextUser,
                 userOps, cleanRun, failedDeletes, faults>>
  /\ UNCHANGED runVars
  /\ UNCHANGED adapterVars
  /\ UNCHANGED sideVars
  /\ UNCHANGED <<file, broken, loaded, hist, atKill>>
  /\ UNCHANGED ghostVars

\* the process dies: what it held in memory stays as it was and is never
\* read again
Die(before, after) ==
  /\ pc' = "dead"
  /\ faults' = faults + 1
  /\ hist' = hist \cup {"kill"}
  /\ atKill' = [before |-> before, after |-> after]
  /\ cleanRun' = FALSE
  /\ UNCHANGED <<clients, mappings, clock, runs, nextUser, userOps,
                 failedDeletes>>
  /\ UNCHANGED runVars
  /\ UNCHANGED adapterVars
  /\ UNCHANGED sideVars
  /\ UNCHANGED <<diskOk, broken, loaded>>

\* the process is killed between two steps of sync()
KillBetweenCalls ==
  /\ pc \in {"fetch", "propagate", "cleanup", "done"}
  /\ faults < MaxFaults
  /\ Die(mappings, mappings)
  /\ UNCHANGED <<remote, nextId, file>>
  /\ UNCHANGED ghostVars

\* the process is killed after createEvent returned and before
\* upsertMapping has written the store file; inSave: after writeFileSync
\* has opened the file
KillInCreate(inSave) ==
  /\ pc = "propagate"
  /\ faults < MaxFaults
  /\ nextId <= MaxMirrors
  /\ LET it == work[wi]
         existing == findMapping(mappings, it.event.sourceId, it.source,
                                 it.target)
         targetId == MirrorId(nextId)
         after == upsertMapping(mappings,
                    [sourceId |-> it.event.sourceId,
                     source |-> it.source,
                     targetId |-> targetId,
                     target |-> it.target,
                     lastSyncedAt |-> clock,
                     sourceUpdatedAt |-> it.event.updatedAt])
     IN /\ existing = NoMapping
        /\ remote' = [remote EXCEPT ![it.target] = @ \cup
                        {[sourceId |-> targetId,
                          updatedAt |-> WrittenStamp(it.target)]}]
        /\ lineage' = [lineage EXCEPT ![nextId] = Mirror(it)]
        /\ lostRows' = lostRows \cup
             {[sourceId |-> it.event.sourceId, source |-> it.source,
               target |-> it.target]}
        /\ file' = IF inSave /\ diskOk THEN Truncated ELSE file
        /\ Die(mappings, IF inSave THEN after ELSE mappings)
  /\ nextId' = nextId + 1
  /\ UNCHANGED failedWrites

KillAfterCreate == KillInCreate(FALSE)

KillInSave == KillInCreate(TRUE)

\* a new process builds the engine: new SyncStore() loads the file
Construct ==
  /\ pc \in {"idle", "dead"}
  /\ pc' = "idle"
  /\ mappings' = load(file)
  /\ broken' = loadsNonArray(file)
  /\ loaded' = file.kind
  /\ lostRows' = lostRows \cup
       ({ KeyOf(m) : m \in Range(mappings) } \
        { KeyOf(m) : m \in Range(load(file)) })
  /\ cleanRun' = (cleanRun /\ pc = "idle" /\ mappings' = mappings /\ ~broken')
  /\ fi' = 1
  /\ allEvents' = [c \in CalendarSource |-> <<>>]
  /\ fetched' = <<>>
  /\ work' = <<>>
  /\ wi' = 1
  /\ result' = EmptyResult
  /\ calls' = <<>>
  /\ storeAtStart' = <<>>
  /\ UNCHANGED <<clients, remote, clock, runs, nextId, nextUser, userOps,
                 failedDeletes, faults>>
  /\ UNCHANGED adapterVars
  /\ UNCHANGED sideVars
  /\ UNCHANGED <<file, diskOk, hist, atKill, lineage, failedWrites>>

\* syncEventsToTarget with a store that holds no array: findMapping raises
\* inside the try of the event
FindRaises ==
  /\ pc = "propagateBroken"
  /\ LET it == work[wi]
     IN result' = [result EXCEPT !.errors =
                     PushError(@, it.event.sourceId, it.source, it.target,
                               "store")]
  /\ PropAdvance(mappings, TRUE)
  /\ UNCHANGED <<clients, remote, mappings, fi, allEvents, fetched, calls,
                 storeAtStart, clock, runs, nextId, nextUser, userOps,
                 cleanRun, failedDeletes, faults>>
  /\ UNCHANGED adapterVars
  /\ UNCHANGED sideVars
  /\ UNCHANGED diskVars
  /\ UNCHANGED ghostVars

\* the promise of sync() is rejected
Rejects ==
  /\ pc = "raised"
  /\ pc' = "idle"
  /\ cleanRun' = FALSE
  /\ fi' = 1
  /\ allEvents' = [c \in CalendarSource |-> <<>>]
  /\ fetched' = <<>>
  /\ work' = <<>>
  /\ wi' = 1
  /\ result' = EmptyResult
  /\ calls' = <<>>
  /\ storeAtStart' = <<>>
  /\ UNCHANGED <<clients, remote, mappings, clock, runs, nextId, nextUser,
                 userOps, failedDeletes, faults>>
  /\ UNCHANGED adapterVars
  /\ UNCHANGED sideVars
  /\ UNCHANGED diskVars
  /\ UNCHANGED ghostVars

NextStore ==
  \/ Next
  \/ FileChange
  \/ DiskFault
  \/ DiskRepair
  \/ KillBetweenCalls
  \/ KillAfterCreate
  \/ KillInSave
  \/ Construct
  \/ FindRaises
  \/ Rejects

\* the engine with a store file that can be lost or damaged, a disk that
\* can refuse writes and a process that can be killed and started again
SpecStore == Init /\ [][NextStore]_vars

(* ---------------------------------------------------------------------- *)
(* SyncStore driven by any caller                                         *)
(* ---------------------------------------------------------------------- *)
MaxStoreOps == 5    \* upsertMapping and removeMapping calls per behaviour

\* keys that differ from one another in one, two or three components
StoreKeys ==
  { [sourceId |-> UserId(1), source |-> "dooray", target |-> "google"],
    [sourceId |-> UserId(2), source |-> "dooray", target |-> "google"],
    [sourceId |-> UserId(1), source |-> "apple", target |-> "google"],
    [sourceId |-> UserId(1), source |-> "dooray", target |-> "apple"],
    [sourceId |-> UserId(2), source |-> "google", target |-> "dooray"] }

StoreUnchanged ==
  /\ UNCHANGED <<clients, remote, pc, runs, nextId, nextUser, userOps,
                 cleanRun, failedDeletes, faults>>
  /\ UNCHANGED runVars
  /\ UNCHANGED adapterVars
  /\ UNCHANGED sideVars
  /\ UNCHANGED <<diskOk, broken, loaded, hist, atKill>>
  /\ UNCHANGED ghostVars

\* store.upsertMapping(mapping)
StoreUpsert ==
  /\ clock < MaxStoreOps
  /\ clock' = clock + 1
  /\ \E k \in StoreKeys, n \in 1..2 :
       mappings' = upsertMapping(mappings,
                     [sourceId |-> k.sourceId, source |-> k.source,
                      targetId |-> MirrorId(n), target |-> k.target,
                      lastSyncedAt |-> clock', sourceUpdatedAt |-> NoStamp])
  /\ file' = save(file, mappings', diskOk)
  /\ StoreUnchanged

\* store.removeMapping(sourceId, source, target)
StoreRemove ==
  /\ clock < MaxStoreOps
  /\ clock' = clock + 1
  /\ \E k \in StoreKeys :
       mappings' = removeMapping(mappings, k.sourceId, k.source, k.target)
  /\ file' = save(file, mappings', diskOk)
  /\ StoreUnchanged

NextStoreOps ==
  \/ StoreUpsert
  \/ StoreRemove

SpecStoreOps == Init /\ [][NextStoreOps]_vars

(* ---------------------------------------------------------------------- *)
(* createEvent / updateEvent of each adapter on one event                 *)
(* ---------------------------------------------------------------------- *)
InitAdapters ==
  /\ EngineInit
  /\ clients = <<"dooray", "google", "apple">>
  /\ probe \in Probes
  /\ written = NoObject
  /\ parsed = NoEvent
  /\ SideInit

Write(adapter, object) ==
  /\ probe # NoProbe
  /\ written = NoObject
  /\ parsed = NoEvent
  /\ written' = [adapter |-> adapter, fields |-> object]
  /\ UNCHANGED probe
  /\ UNCHANGED parsed
  /\ UNCHANGED sideVars
  /\ UNCHANGED engineVars
  /\ UNCHANGED diskVars
  /\ UNCHANGED ghostVars

DoorayCalDavWrite ==
  Write("dooray-caldav", toICal(<<"UID">>, probe.event, probe.visibility))

AppleWrite ==
  Write("apple", toICal(<<"UID">>, probe.event, probe.visibility))

GoogleWrite ==
  Write("google", toGoogleEvent(probe.event, probe.visibility))

DoorayRestWrite ==
  Write("dooray-rest", toRequestBody(probe.event, probe.visibility))

\* getEvents of the same adapter reads the written object back
ReadBack(adapter, event) ==
  /\ written.adapter = adapter
  /\ parsed = NoEvent
  /\ parsed' = event
  /\ UNCHANGED <<probe, written>>
  /\ UNCHANGED sideVars
  /\ UNCHANGED engineVars
  /\ UNCHANGED diskVars
  /\ UNCHANGED ghostVars

DoorayCalDavReadBack ==
  ReadBack("dooray-caldav", parseICalToEvent(written.fields))

AppleReadBack == ReadBack("apple", parseICalToEvent(written.fields))

GoogleReadBack == ReadBack("google", toCalendarEventGoogle(written.fields))

DoorayRestReadBack ==
  ReadBack("dooray-rest", toCalendarEventDoorayRest(written.fields))

NextAdapters ==
  \/ DoorayCalDavWrite
  \/ AppleWrite
  \/ GoogleWrite
  \/ DoorayRestWrite
  \/ DoorayCalDavReadBack
  \/ AppleReadBack
  \/ GoogleReadBack
  \/ DoorayRestReadBack

SpecAdapters == InitAdapters /\ [][NextAdapters]_vars

(* ---------------------------------------------------------------------- *)
(* getEvents of each adapter on one backend                               *)
(* ---------------------------------------------------------------------- *)
InitReads ==
  /\ EngineInit
  /\ probe = NoProbe
  /\ written = NoObject
  /\ parsed = NoEvent
  /\ reads \in ReadScenarios
  /\ got = NotCalled
  /\ config = [dooray |-> NoSection, google |-> NoSection,
               apple |-> NoSection]
  /\ engine = NoEngine
  /\ script = NoScript
  /\ LateIdle

GetEvents(adapter, outcome) ==
  /\ reads.adapter = adapter
  /\ got = NotCalled
  /\ got' = outcome
  /\ UNCHANGED reads
  /\ UNCHANGED initVars
  /\ UNCHANGED scriptVars
  /\ UNCHANGED dateVars
  /\ UNCHANGED hostVars
  /\ UNCHANGED engineVars
  /\ UNCHANGED adapterVars
  /\ UNCHANGED diskVars
  /\ UNCHANGED ghostVars

DoorayCalDavGetEvents ==
  GetEvents("dooray-caldav", getEventsDoorayCalDav(reads))

DoorayCalDavAllGetEvents ==
  GetEvents("dooray-caldav-all", getEventsDoorayCalDavAll(reads))

DoorayRestGetEvents == GetEvents("dooray-rest", getEventsDoorayRest(reads))

GoogleGetEvents == GetEvents("google", getEventsGoogle(reads))

AppleGetEvents == GetEvents("apple", getEventsApple(reads))

NextReads ==
  \/ DoorayCalDavGetEvents
  \/ DoorayCalDavAllGetEvents
  \/ DoorayRestGetEvents
  \/ GoogleGetEvents
  \/ AppleGetEvents

SpecReads == InitReads /\ [][NextReads]_vars

(* ---------------------------------------------------------------------- *)
(* handleCalendarSync / handleScheduledSync on one configuration          *)
(* ---------------------------------------------------------------------- *)
InitConfig ==
  /\ EngineInit
  /\ probe = NoProbe
  /\ written = NoObject
  /\ parsed = NoEvent
  /\ reads = NoScenario
  /\ got = NotCalled
  /\ config \in PluginConfigs
  /\ engine = NoEngine
  /\ script = NoScript
  /\ LateIdle

InitUnchanged ==
  /\ UNCHANGED config
  /\ UNCHANGED readVars
  /\ UNCHANGED scriptVars
  /\ UNCHANGED dateVars
  /\ UNCHANGED hostVars
  /\ UNCHANGED engineVars
  /\ UNCHANGED adapterVars
  /\ UNCHANGED diskVars
  /\ UNCHANGED ghostVars

\* const engine = await initialize(config)
Initialize ==
  /\ engine.status = "none"
  /\ engine' = initialize(config)
  /\ InitUnchanged

\* await engine.sync(), reached when initialize has returned
HandlerSync ==
  /\ engine.status = "returned"
  /\ ~engine.syncing
  /\ engine' = [engine EXCEPT !.syncing = TRUE]
  /\ InitUnchanged

\* the catch of the handler: the failure is reported, no run is started
HandlerCatch ==
  /\ engine.status = "raised"
  /\ engine' = [engine EXCEPT !.status = "reported"]
  /\ InitUnchanged

NextConfig ==
  \/ Initialize
  \/ HandlerSync
  \/ HandlerCatch

SpecConfig == InitConfig /\ [][NextConfig]_vars

(* ---------------------------------------------------------------------- *)
(* main() of the cleanup script                                           *)
(* ---------------------------------------------------------------------- *)
InitScript ==
  /\ EngineInit
  /\ probe = NoProbe
  /\ written = NoObject
  /\ parsed = NoEvent
  /\ reads = NoScenario
  /\ got = NotCalled
  /\ config = [dooray |-> NoSection, google |-> NoSection,
               apple |-> NoSection]
  /\ engine = NoEngine
  /\ script \in ScriptRuns
  /\ LateIdle

ScriptUnchanged ==
  /\ UNCHANGED readVars
  /\ UNCHANGED initVars
  /\ UNCHANGED dateVars
  /\ UNCHANGED hostVars
  /\ UNCHANGED engineVars
  /\ UNCHANGED adapterVars
  /\ UNCHANGED <<diskOk, broken, loaded, hist, atKill>>
  /\ UNCHANGED ghostVars

\* the store file is there when the script starts, or it is not
ScriptFindsStore ==
  /\ script.pos = "start"
  /\ script' = [script EXCEPT !.pos = "env"]
  /\ file' = IF script.storeAtStart THEN SomeStoreFile ELSE NoFile
  /\ ScriptUnchanged

\* "if (!username || !password) process.exit(1)"
ScriptNoCredentials ==
  /\ script.pos = "env"
  /\ ~script.credentials
  /\ script' = [script EXCEPT !.pos = "exit1"]
  /\ UNCHANGED file
  /\ ScriptUnchanged

\* login, fetchCalendars or fetchCalendarObjects raises: main().catch
ScriptReadRaises ==
  /\ script.pos = "env"
  /\ script.credentials
  /\ script' = [script EXCEPT !.pos = "exit1"]
  /\ UNCHANGED file
  /\ ScriptUnchanged

\* the objects are fetched and classified; the script returns when nothing
\* is to be deleted and, in preview mode, after it has printed the list
ScriptClassify ==
  /\ script.pos = "env"
  /\ script.credentials
  /\ script' = [script EXCEPT !.pos =
                  IF toDelete(script.objects, script.args) = <<>>
                  THEN "exit0"
                  ELSE IF ~doDelete(script.args) THEN "exit0"
                  ELSE "deleting"]
  /\ UNCHANGED file
  /\ ScriptUnchanged

\* the loop over toDelete after one iteration
ScriptAdvance(sc) ==
  IF sc.di < Len(toDelete(sc.objects, sc.args))
  THEN [sc EXCEPT !.di = @ + 1]
  ELSE [sc EXCEPT !.pos = "reset"]

\* deleteCalendarObject returned
ScriptDeleteOk ==
  /\ script.pos = "deleting"
  /\ script' = ScriptAdvance(
       [script EXCEPT !.deleteCalls =
                        Append(@, toDelete(script.objects,
                                           script.args)[script.di]),
                      !.success = @ + 1])
  /\ UNCHANGED file
  /\ ScriptUnchanged

\* deleteCalendarObject raised
ScriptDeleteFail ==
  /\ script.pos = "deleting"
  /\ script' = ScriptAdvance(
       [script EXCEPT !.deleteCalls =
                        Append(@, toDelete(script.objects,
                                           script.args)[script.di]),
                      !.fail = @ + 1])
  /\ UNCHANGED file
  /\ ScriptUnchanged

\* "if (fs.existsSync(storePath)) fs.unlinkSync(storePath)"
ScriptResetStore ==
  /\ script.pos = "reset"
  /\ script' = [script EXCEPT !.pos = "exit0"]
  /\ file' = NoFile
  /\ ScriptUnchanged

NextScript ==
  \/ ScriptFindsStore
  \/ ScriptNoCredentials
  \/ ScriptReadRaises
  \/ ScriptClassify
  \/ ScriptDeleteOk
  \/ ScriptDeleteFail
  \/ ScriptResetStore
(* ---------------------------------------------------------------------- *)
(* Repeated runs over calendars nobody else changes                       *)
(* ---------------------------------------------------------------------- *)
\* the owner fills the calendars before the first run and leaves them alone
\* afterwards
SetUp ==
  /\ runs = 0
  /\ \/ UserAdd
     \/ UserEdit
     \/ UserDelete

\* sync() run after run with adapters that never raise.  updateEvent and
\* deleteEvent are never due in these runs: no source event changes or
\* disappears once the runs have begun.
NextConverge ==
  \/ SetUp
  \/ StartSync
  \/ FetchOk
  \/ CreateOk
  \/ SkipUnchanged
  \/ Return

SpecConverge == Init /\ [][NextConverge]_vars /\ WF_vars(NextConverge)

(* ---------------------------------------------------------------------- *)
(* Runs in which nothing raises and the owner leaves the mirrors alone    *)
(* ---------------------------------------------------------------------- *)
\* the events of the step's calendars that the step changed or removed
Changed == UNION { remote[c] \ remote'[c] : c \in CalendarSource }

IsMirror(id) == \E n \in 1..MaxMirrors : id = MirrorId(n)

\* the owner edits or removes an event of their own
UserEditOwn == UserEdit /\ \A e \in Changed : ~IsMirror(e.sourceId)

UserDeleteOwn == UserDelete /\ \A e \in Changed : ~IsMirror(e.sourceId)

NextOwn ==
  \/ UserAdd
  \/ UserEditOwn
  \/ UserDeleteOwn
  \/ StartSync
  \/ FetchOk
  \/ CreateOk
  \/ UpdateOk
  \/ SkipUnchanged
  \/ DeleteOk
  \/ Return

SpecOwn == Init /\ [][NextOwn]_vars

(* ---------------------------------------------------------------------- *)
(* A source whose fetched list holds one sourceId twice                   *)
(* ---------------------------------------------------------------------- *)
\* before the first run a second calendar object with the UID of an event
\* appears in the account (the event's copy in a shared calendar), with
\* another LAST-MODIFIED or none; getEvents returns both
SharedCopy ==
  /\ pc = "idle"
  /\ runs = 0
  /\ \E c \in Range(clients) : \E e \in remote[c] :
       \E st \in {NoStamp} \cup 1..MaxStamp :
         /\ \A o \in remote[c] : o.sourceId = e.sourceId => o = e
         /\ st # e.updatedAt
         /\ remote' = [remote EXCEPT ![c] = @ \cup
                         {[e EXCEPT !.updatedAt = st]}]
  /\ cleanRun' = FALSE
  /\ UNCHANGED <<clients, mappings, pc, clock, runs, nextId, nextUser,
                 userOps, failedDeletes, faults>>
  /\ UNCHANGED runVars
  /\ UNCHANGED adapterVars
  /\ UNCHANGED sideVars
  /\ UNCHANGED diskVars
  /\ UNCHANGED ghostVars

\* runs over calendars that do not change once the runs have begun, with
\* adapters that never raise
NextDuplicates ==
  \/ SetUp
  \/ SharedCopy
  \/ StartSync
  \/ FetchOk
  \/ CreateOk
  \/ UpdateOk
  \/ SkipUnchanged
  \/ Return

SpecDuplicates == Init /\ [][NextDuplicates]_vars

(* ---------------------------------------------------------------------- *)
(* getEvents(from, to) of the Dooray adapter, and the date conversions    *)
(* ---------------------------------------------------------------------- *)
\* the engine rests and none of the earlier probes is in use
EarlyIdle ==
  /\ EngineInit
  /\ clients = <<"dooray", "google", "apple">>
  /\ probe = NoProbe
  /\ written = NoObject
  /\ parsed = NoEvent
  /\ reads = NoScenario
  /\ got = NotCalled
  /\ config = [dooray |-> NoSection, google |-> NoSection,
               apple |-> NoSection]
  /\ engine = NoEngine
  /\ script = NoScript

EarlyUnchanged ==
  /\ UNCHANGED engineVars
  /\ UNCHANGED adapterVars
  /\ UNCHANGED diskVars
  /\ UNCHANGED ghostVars
  /\ UNCHANGED readVars
  /\ UNCHANGED initVars
  /\ UNCHANGED scriptVars

InitWindow ==
  /\ EarlyIdle
  /\ window \in WindowRuns
  /\ conv = NoConv
  /\ host = NoHost

\* DoorayCalendarClient.getEvents(from, to)
DoorayGetEventsInWindow ==
  /\ window # NoWindow
  /\ ~window.called
  /\ window' = [window EXCEPT
                  !.events = getEventsInWindow(window.objects, window.from,
                                               window.to, window.offset),
                  !.called = TRUE]
  /\ UNCHANGED <<conv, host>>
  /\ EarlyUnchanged

NextWindow == DoorayGetEventsInWindow

SpecWindow == InitWindow /\ [][NextWindow]_vars

InitDates ==
  /\ EarlyIdle
  /\ window = NoWindow
  /\ conv \in Conversions
  /\ host = NoHost

\* DoorayCalendarClient: toICalDate when the event is written, parseICalDate
\* when it is read back
DoorayRoundTrip ==
  /\ conv # NoConv
  /\ conv.dooray = <<>>
  /\ conv' = [conv EXCEPT !.ical = toICalDate(conv.iso),
                          !.dooray = parseICalDate(toICalDate(conv.iso))]
  /\ UNCHANGED <<window, host>>
  /\ EarlyUnchanged

\* AppleCalendarClient: the same two steps
AppleRoundTrip ==
  /\ conv # NoConv
  /\ conv.apple = <<>>
  /\ conv' = [conv EXCEPT
                !.ical = toICalDate(conv.iso),
                !.apple = parseICalDateApple(toICalDate(conv.iso))]
  /\ UNCHANGED <<window, host>>
  /\ EarlyUnchanged

NextDates ==
  \/ DoorayRoundTrip
  \/ AppleRoundTrip

SpecDates == InitDates /\ [][NextDates]_vars

(* ---------------------------------------------------------------------- *)
(* Tool executions of one plugin registration                             *)
(* ---------------------------------------------------------------------- *)
InitHost ==
  /\ EarlyIdle
  /\ window = NoWindow
  /\ conv = NoConv
  /\ host \in Hosts

HostUnchanged ==
  /\ UNCHANGED <<window, conv>>
  /\ EarlyUnchanged

\* the host calls execute of a tool: execute runs into getEngine, which
\* returns at once or starts initialize and waits for it
Execute(e, tool) ==
  /\ host # NoHost
  /\ host.execs[e].pc = "idle"
  /\ LET r == getEngine(host)
     IN host' = [host EXCEPT
                   !.made = IF r.pending THEN r.eng ELSE @,
                   !.execs[e] = [pc |-> IF r.pending THEN "initialize"
                                        ELSE "getEngine",
                                 tool |-> tool, eng |-> r.eng]]
  /\ HostUnchanged

\* engine = await compiled.initialize(config); return engine
InitializeResolves(e) ==
  /\ host # NoHost
  /\ host.execs[e].pc = "initialize"
  /\ host' = [host EXCEPT !.engine = host.execs[e].eng,
                          !.execs[e].pc = "getEngine"]
  /\ HostUnchanged

\* var eng = await getEngine(): without an engine the tool answers that
\* none is set up, with one it calls eng.sync() or eng.getStatus()
UseEngine(e) ==
  /\ host # NoHost
  /\ host.execs[e].pc = "getEngine"
  /\ host' = [host EXCEPT
                !.synced = IF /\ host.execs[e].eng # NullEngine
                              /\ host.execs[e].tool = "calendar_sync"
                           THEN @ \cup {host.execs[e].eng} ELSE @,
                !.execs[e].pc = "returned"]
  /\ HostUnchanged

CalendarSyncExecute == \E e \in 1..MaxExecs : Execute(e, "calendar_sync")

CalendarStatusExecute == \E e \in 1..MaxExecs : Execute(e, "calendar_status")

GetEngineResumes == \E e \in 1..MaxExecs : InitializeResolves(e)

ExecuteResumes == \E e \in 1..MaxExecs : UseEngine(e)

NextHost ==
  \/ CalendarSyncExecute
  \/ CalendarStatusExecute
  \/ GetEngineResumes
  \/ ExecuteResumes

SpecHost == InitHost /\ [][NextHost]_vars


SpecScript == InitScript /\ [][NextScript]_vars

TypeOK ==
  /\ pc \in {"idle", "fetch", "propagate", "propagateBroken", "cleanup",
            "done", "raised", "dead"}
  /\ file.kind \in FileKinds
  /\ loaded \in FileKinds
  /\ broken => mappings = <<>>
  /\ pc \in {"propagate", "cleanup"} => wi \in 1..Len(work)
  /\ nextId \in 1..(MaxMirrors + 1)

(* ---------------------------------------------------------------------- *)
(* Properties                                                             *)
(* ---------------------------------------------------------------------- *)
IsWrite(c) == c.op \in {"createEvent", "updateEvent"}

FetchedIds(source) == { e.sourceId : e \in Range(allEvents[source]) }

FetchFailed(c) ==
  \E i \in 1..Len(calls) :
    calls[i].op = "getEvents" /\ calls[i].cal = c /\ ~calls[i].ok

\* number of calls of the run with the given operation, client, event or
\* row and outcome
NumCalls(ops, cal, sourceId, source, oks) ==
  Cardinality({ i \in 1..Len(calls) :
                  /\ calls[i].op \in ops
                  /\ calls[i].cal = cal
                  /\ calls[i].sourceId = sourceId
                  /\ calls[i].source = source
                  /\ calls[i].ok \in oks })

NumOk(op) ==
  Cardinality({ i \in 1..Len(calls) : calls[i].op = op /\ calls[i].ok })

NumErrors(sourceId, source, target) ==
  Cardinality({ i \in 1..Len(result.errors) :
                  /\ result.errors[i].sourceId = sourceId
                  /\ result.errors[i].source = source
                  /\ result.errors[i].target = target })

\* C1: a run that follows a run without any raising call, with no change by
\* anybody but the engine in between, and whose getEvents calls all return
\* what the calendars hold, returns created = 0 and updated = 0.
C1_Idempotence ==
  (pc = "done" /\ cleanRun /\ Range(fetched) = Range(clients)) =>
    (result.created = 0 /\ result.updated = 0)

\* C2: every createEvent and updateEvent call carries visibility public when
\* the source calendar is dooray and private when it is google or apple,
\* whatever the event's own visibility field holds.
C2_VisibilityPolicy ==
  \A i \in 1..Len(calls) :
    IsWrite(calls[i]) =>
      calls[i].visibility =
        (IF calls[i].source = "dooray" THEN "public" ELSE "private")

\* a dooray event tagged private was written as public and, in the same run,
\* a google event tagged public was written as private
C2_Witness ==
  /\ \E i \in 1..Len(calls) :
       /\ IsWrite(calls[i]) /\ calls[i].ok
       /\ calls[i].source = "dooray"
       /\ calls[i].eventVisibility = "private"
       /\ calls[i].visibility = "public"
  /\ \E i \in 1..Len(calls) :
       /\ IsWrite(calls[i]) /\ calls[i].ok
       /\ calls[i].source = "google"
       /\ calls[i].eventVisibility = "public"
       /\ calls[i].visibility = "private"

\* no field of the written object holds the text verbatim
Hidden(text) ==
  \A i \in 1..Len(written.fields) : ~Contains(written.fields[i].value, text)

\* C3: the object any adapter writes with visibility = private contains
\* neither the event's description text nor its location text.
C3_RedactionCompleteness ==
  (written # NoObject /\ probe.visibility = "private") =>
    (Hidden(probe.event.description) /\ Hidden(probe.event.location))

\* the same, for the adapters other than the Dooray REST client
C3_RedactionExceptDoorayRest ==
  (written # NoObject /\ probe.visibility = "private"
   /\ written.adapter # "dooray-rest") =>
    (Hidden(probe.event.description) /\ Hidden(probe.event.location))

\* the rows of the run's start that cleanup must find gone: source fetched,
\* target registered and other than the source, sourceId not fetched
GoneRows ==
  { r \in Range(storeAtStart) :
      /\ r.source \in Range(fetched)
      /\ r.target \in Range(clients) \ {r.source}
      /\ r.sourceId \notin FetchedIds(r.source) }

DeleteCalls(r, oks) ==
  { i \in 1..Len(calls) :
      /\ calls[i].op = "deleteEvent"
      /\ calls[i].cal = r.target
      /\ calls[i].targetId = r.targetId
      /\ calls[i].ok \in oks }

\* C4: when a run returns, every row (X, A, B, targetId) whose source A was
\* fetched without X and whose target B is another registered calendar has
\* had exactly one deleteEvent(targetId) call on B; if the call returned the
\* row is gone from the store, and deleted counts the calls that returned.
C4_DeletionDetection ==
  pc = "done" =>
    /\ \A r \in GoneRows :
         /\ Cardinality(DeleteCalls(r, BOOLEAN)) = 1
         /\ DeleteCalls(r, {TRUE}) # {} =>
              findMapping(mappings, r.sourceId, r.source, r.target) = NoMapping
    /\ result.deleted = NumOk("deleteEvent")
    /\ result.deleted =
         Cardinality({ r \in GoneRows : DeleteCalls(r, {TRUE}) # {} })

\* a run has deleted the mirror of a vanished event and dropped its row
C4_Witness ==
  /\ pc = "done"
  /\ result.deleted = 1
  /\ \E r \in GoneRows :
       /\ DeleteCalls(r, {TRUE}) # {}
       /\ ~Exists(r.target, r.targetId)
       /\ Len(mappings) < Len(storeAtStart)

\* C5: when a run returns, each event of each edge has as many error entries
\* as write calls that raised for it (at most one), every event without a
\* row had its createEvent call whatever happened to the events before it,
\* and created and updated count the calls that returned.
C5_FailureIsolation ==
  pc = "done" =>
    /\ \A S \in Range(fetched) : \A T \in Range(clients) \ {S} :
         \A e \in Range(allEvents[S]) :
           LET ops == {"createEvent", "updateEvent"}
               raised == NumCalls(ops, T, e.sourceId, S, {FALSE})
               returned == NumCalls(ops, T, e.sourceId, S, {TRUE})
           IN /\ NumErrors(e.sourceId, S, T) = raised
              /\ raised + returned <= 1
              /\ findMapping(storeAtStart, e.sourceId, S, T) = NoMapping =>
                   NumCalls({"createEvent"}, T, e.sourceId, S, BOOLEAN) = 1
    /\ result.created = NumOk("createEvent")
    /\ result.updated = NumOk("updateEvent")

\* on one edge createEvent raised for an event, the next event of the same
\* edge was created, and the run returned with the one error entry
C5_Witness ==
  /\ pc = "done"
  /\ result.created >= 1
  /\ \E i \in 1..Len(calls) : \E j \in (i + 1)..Len(calls) :
       /\ calls[i].op = "createEvent" /\ ~calls[i].ok
       /\ calls[j].op = "createEvent" /\ calls[j].ok
       /\ calls[i].source = calls[j].source
       /\ calls[i].cal = calls[j].cal
       /\ calls[i].sourceId # calls[j].sourceId
       /\ NumErrors(calls[i].sourceId, calls[i].source, calls[i].cal) = 1
       /\ NumErrors(calls[j].sourceId, calls[j].source, calls[j].cal) = 0

\* C6: no createEvent, updateEvent or deleteEvent call is made on the
\* adapter of the calendar the event or row comes from, and no row has
\* source = target.
C6_SelfPairExclusion ==
  /\ \A i \in 1..Len(calls) :
       calls[i].op # "getEvents" => calls[i].cal # calls[i].source
  /\ \A i \in 1..Len(mappings) : mappings[i].source # mappings[i].target

\* a run that created and deleted mirrors has returned
C6_Witness ==
  /\ pc = "done"
  /\ \E i \in 1..Len(calls) : calls[i].op = "createEvent" /\ calls[i].ok
  /\ \E i \in 1..Len(calls) : calls[i].op = "deleteEvent" /\ calls[i].ok
  /\ mappings # <<>>

\* the write call an event of a fetched source needs on an edge, judged on
\* the store of the run's start, was made
Propagated(S, T) ==
  \A e \in Range(allEvents[S]) :
    LET row == findMapping(storeAtStart, e.sourceId, S, T)
    IN IF row = NoMapping
       THEN NumCalls({"createEvent"}, T, e.sourceId, S, BOOLEAN) = 1
       ELSE (/\ e.updatedAt # NoStamp
             /\ row.sourceUpdatedAt # NoStamp
             /\ e.updatedAt # row.sourceUpdatedAt)
            => NumCalls({"updateEvent"}, T, e.sourceId, S, BOOLEAN) = 1

\* C7: when a run returns in which getEvents of calendar C raised, the result
\* has exactly one error entry of that fetch, no createEvent or updateEvent
\* call has source C, and every edge of a fetched source is propagated, the
\* edges into C included.
C7_FetchFailureIsolation ==
  pc = "done" =>
    \A C \in Range(clients) :
      FetchFailed(C) =>
        /\ NumErrors(NoId, C, C) = 1
        /\ \A i \in 1..Len(calls) : IsWrite(calls[i]) => calls[i].source # C
        /\ \A S \in Range(fetched) : \A T \in Range(clients) \ {S} :
             Propagated(S, T)

\* the fetch of a calendar raised and an event of another calendar was still
\* created in it
C7_Witness ==
  /\ pc = "done"
  /\ \E C \in Range(clients) :
       /\ FetchFailed(C)
       /\ remote[C] # {}
       /\ \E i \in 1..Len(calls) :
            calls[i].op = "createEvent" /\ calls[i].ok /\ calls[i].cal = C

RowsOfSource(maps, C) ==
  LET from(m) == m.source = C
  IN SelectSeq(maps, from)

\* C8: in a run in which getEvents of calendar C raised, no deleteEvent call
\* is made for a row with source C and the rows with source C stay as they
\* were at the start of the run.
C8_FailedFetchNoDeletion ==
  \A C \in Range(clients) :
    FetchFailed(C) =>
      /\ \A i \in 1..Len(calls) :
           calls[i].op = "deleteEvent" => calls[i].source # C
      /\ RowsOfSource(mappings, C) = RowsOfSource(storeAtStart, C)

\* the fetch of a calendar that has mirrored events raised, and the run
\* returned after a cleanup that left its rows alone
C8_Witness ==
  /\ pc = "done"
  /\ \E C \in Range(clients) :
       /\ FetchFailed(C)
       /\ RowsOfSource(mappings, C) # <<>>
       /\ \E i \in 1..Len(mappings) :
            mappings[i].source = C /\ ~Exists(C, mappings[i].sourceId)

\* C9: a deleteEvent call that raised leaves its row as it was, puts one
\* error entry in the result and is not counted as deleted; and a run that
\* fetches the source without the event calls deleteEvent again for every
\* row whose deletion raised in an earlier run and has not succeeded since.
C9_FailedDeleteRetried ==
  /\ \A i \in 1..Len(calls) :
       (calls[i].op = "deleteEvent" /\ ~calls[i].ok) =>
         LET c == calls[i]
             row == findMapping(mappings, c.sourceId, c.source, c.cal)
         IN /\ row # NoMapping
            /\ row = findMapping(storeAtStart, c.sourceId, c.source, c.cal)
            /\ row.targetId = c.targetId
            /\ NumErrors(c.sourceId, c.source, c.cal) = 1
  /\ result.deleted = NumOk("deleteEvent")
  /\ pc = "done" =>
       \A k \in failedDeletes :
         (/\ k.source \in Range(fetched)
          /\ k.sourceId \notin FetchedIds(k.source)) =>
           \E i \in 1..Len(calls) :
             /\ calls[i].op = "deleteEvent"
             /\ calls[i].cal = k.target
             /\ calls[i].targetId = k.targetId

\* a deletion that raised in an earlier run was made again and returned
C9_Witness ==
  /\ pc = "done"
  /\ \E k \in failedDeletes :
       /\ \E i \in 1..Len(calls) :
            /\ calls[i].op = "deleteEvent" /\ calls[i].ok
            /\ calls[i].cal = k.target
            /\ calls[i].targetId = k.targetId
       /\ findMapping(mappings, k.sourceId, k.source, k.target) = NoMapping

\* C10: for an event with a row on its edge, the step of the event loop
\* calls updateEvent(row.targetId, event, visibility) exactly when the
\* event's updatedAt and the row's sourceUpdatedAt are both non-empty and
\* differ; when the call returns the row gets the event's updatedAt and the
\* current time and nothing else changes in the store; in every other case
\* the step makes no adapter call and leaves the store alone.
C10_ChangeDetection ==
  [][ pc = "propagate" =>
        LET it == work[wi]
            row == findMapping(mappings, it.event.sourceId, it.source,
                               it.target)
            differ == /\ it.event.updatedAt # NoStamp
                      /\ row.sourceUpdatedAt # NoStamp
                      /\ it.event.updatedAt # row.sourceUpdatedAt
            last == calls'[Len(calls')]
            called == /\ Len(calls') = Len(calls) + 1
                      /\ last.op = "updateEvent"
                      /\ last.cal = it.target
                      /\ last.targetId = row.targetId
                      /\ last.sourceId = it.event.sourceId
                      /\ last.visibility = it.visibility
        IN row # NoMapping =>
             /\ differ <=> called
             /\ (called /\ last.ok) =>
                  /\ Len(mappings') = Len(mappings)
                  /\ \A i \in 1..Len(mappings) :
                       mappings'[i] =
                         IF mappings[i] = row
                         THEN [row EXCEPT !.sourceUpdatedAt =
                                             it.event.updatedAt,
                                          !.lastSyncedAt = clock]
                         ELSE mappings[i]
             /\ ~differ => (calls' = calls /\ mappings' = mappings
                            /\ remote' = remote)
    ]_vars

\* a changed event was pushed by updateEvent and its row carries the new
\* updatedAt and the time of this run
C10_Witness ==
  \E i \in 1..Len(calls) :
    /\ calls[i].op = "updateEvent" /\ calls[i].ok
    /\ LET row == findMapping(mappings, calls[i].sourceId, calls[i].source,
                              calls[i].cal)
           old == findMapping(storeAtStart, calls[i].sourceId,
                              calls[i].source, calls[i].cal)
       IN /\ row # NoMapping /\ old # NoMapping
          /\ row.sourceUpdatedAt # old.sourceUpdatedAt
          /\ row.lastSyncedAt = clock
          /\ old.lastSyncedAt < clock

\* the ids createEvent has returned for event sourceId of source in target
CreatesOf(sourceId, source, target) ==
  { n \in 1..MaxMirrors :
      /\ lineage[n].sourceId = sourceId
      /\ sourceId # NoId
      /\ lineage[n].source = source
      /\ lineage[n].target = target }

\* no updateEvent call of the run is for an event fetched without updatedAt
NoUpdateWithoutStamp ==
  \A i \in 1..Len(calls) :
    calls[i].op = "updateEvent" =>
      \E e \in Range(allEvents[calls[i].source]) :
        e.sourceId = calls[i].sourceId /\ e.updatedAt # NoStamp

\* the events a calendar holds that have never carried an updatedAt (an
\* event that has one keeps one)
Unstamped(S) == { o \in remote[S] : o.updatedAt = NoStamp }

\* C11: over any sequence of complete runs, an event that never carries an
\* updatedAt has at most one createEvent that returned on each edge and no
\* updateEvent call.
C11_CreatedOnce ==
  "kill" \notin hist =>
    /\ NoUpdateWithoutStamp
    /\ \A S \in Range(clients) : \A o \in Unstamped(S) :
         \A T \in Range(clients) :
           Cardinality(CreatesOf(o.sourceId, S, T)) <= 1

\* C11 (amended): an event that never carries an updatedAt has no
\* updateEvent call, and at most one createEvent that returned on each edge
\* whose row the store has not lost (file removed or damaged, failed write
\* followed by a restart, process killed before the row was written, row
\* removed by cleanup).
C11_CreatedOncePerRow ==
  /\ NoUpdateWithoutStamp
  /\ \A S \in Range(clients) : \A o \in Unstamped(S) :
       \A T \in Range(clients) :
         [sourceId |-> o.sourceId, source |-> S, target |-> T] \notin lostRows
           => Cardinality(CreatesOf(o.sourceId, S, T)) <= 1

\* an event without updatedAt was mirrored by an earlier run and the run
\* that has just ended fetched it again and left its mirror and row alone
C11_Witness ==
  /\ pc = "done"
  /\ \E S \in Range(fetched) : \E o \in Unstamped(S) :
       \E T \in Range(clients) :
         LET row == findMapping(mappings, o.sourceId, S, T)
         IN /\ o.sourceId \in FetchedIds(S)
            /\ Cardinality(CreatesOf(o.sourceId, S, T)) = 1
            /\ row # NoMapping
            /\ row.lastSyncedAt < clock
            /\ Exists(T, row.targetId)

\* C12: whatever the adapters, the disk and the store file do, sync() does
\* not raise: no run ends with its promise rejected.
C12_RunCompletes == pc # "raised"

\* a run in which no adapter call raised has reached its end
CompleteRun == pc = "done" /\ \A i \in 1..Len(calls) : calls[i].ok

\* calendar T holds two mirrors of the same source event
TwoMirrors(T) ==
  \E a \in 1..MaxMirrors : \E b \in (a + 1)..MaxMirrors :
    /\ Exists(T, MirrorId(a)) /\ Exists(T, MirrorId(b))
    /\ lineage[a].sourceId # NoId /\ lineage[b].sourceId # NoId
    /\ lineage[a].target = T /\ lineage[b].target = T
    /\ lineage[a].sourceId = lineage[b].sourceId
    /\ lineage[a].source = lineage[b].source

\* C13: after a run that was killed and a complete run that followed it on
\* the same store file and calendars, no calendar holds two mirrors of the
\* same (sourceId, source).
C13_InterruptResume ==
  (hist = {"kill"} /\ CompleteRun) =>
    \A T \in Range(clients) : ~TwoMirrors(T)

\* C14: whatever the store file holds that is no array of rows, the
\* constructor of SyncStore leaves a store with zero mappings whose
\* methods work.
C14_LoadFailureResets ==
  [][ (Construct /\ file.kind # "array") =>
        (mappings' = <<>> /\ count(mappings') = 0 /\ ~broken') ]_vars

\* C15: a complete run that started with an empty store, after the store
\* file was lost or failed to load, leaves no calendar with two mirrors of
\* the same (sourceId, source).
C15_RecreateIdempotent ==
  (/\ hist # {} /\ hist \subseteq (FileKinds \ {"array"})
   /\ ~broken /\ storeAtStart = <<>> /\ CompleteRun) =>
    \A T \in Range(clients) : ~TwoMirrors(T)

\* C17: while every file write has succeeded the store file holds exactly
\* the in-memory mapping list; and when the process is killed the file is
\* whole and loads as the list before or after the mutating call that was
\* under way.
C17_ImmediatePersistence ==
  /\ (hist = {} /\ pc # "dead") => load(file) = mappings
  /\ (hist = {"kill"} /\ pc = "dead") =>
       /\ file.kind \in {"missing", "array"}
       /\ load(file) \in {atKill.before, atKill.after}

\* the counter of the result a returned adapter call is counted in
CounterOf(op) ==
  IF op = "createEvent" THEN "created"
  ELSE IF op = "updateEvent" THEN "updated" ELSE "deleted"

\* C16: when the file write of upsertMapping or removeMapping fails, the
\* step of the engine does not raise, records no error entry and counts the
\* create, update or delete; the file stays as it was and the in-memory
\* list holds the change, so the rows of the creates of the run are found
\* by the findMapping calls that follow.
C16_SaveFailureNonFatal ==
  /\ [][ (/\ ~diskOk
          /\ pc \in {"propagate", "cleanup"}
          /\ Len(calls') = Len(calls) + 1
          /\ calls'[Len(calls')].ok) =>
           LET c == calls'[Len(calls')]
               row == findMapping(mappings', c.sourceId, c.source, c.cal)
           IN /\ pc' # "raised"
              /\ file' = file
              /\ result'.errors = result.errors
              /\ result'[CounterOf(c.op)] = result[CounterOf(c.op)] + 1
              /\ IF c.op = "deleteEvent" THEN row = NoMapping
                 ELSE row # NoMapping /\ row.targetId = c.targetId
                      /\ row.lastSyncedAt = clock
       ]_vars
  /\ [](\A i \in 1..Len(calls) :
          (calls[i].op = "createEvent" /\ calls[i].ok
           /\ pc \in {"propagate", "cleanup", "done"}) =>
            LET c == calls[i]
                row == findMapping(mappings, c.sourceId, c.source, c.cal)
            IN row # NoMapping => row.targetId = c.targetId)

\* a run made a mirror while the disk refused every write: the run ended
\* with the create counted and no error, the row is in memory only
C16_Witness ==
  /\ pc = "done"
  /\ ~diskOk
  /\ result.created >= 1
  /\ result.errors = <<>>
  /\ mappings # <<>>
  /\ load(file) # mappings

\* C18: the store holds at most one row for each key (sourceId, source,
\* target) and count is the number of keys it holds.
C18_KeyUniqueness ==
  /\ \A i \in 1..Len(mappings) : \A j \in 1..Len(mappings) :
       KeyOf(mappings[i]) = KeyOf(mappings[j]) => i = j
  /\ count(mappings) = Cardinality({ KeyOf(m) : m \in Range(mappings) })

\* the first row of the store was replaced in place after the second row
\* was added and another call was made
C18_Witness ==
  /\ count(mappings) >= 2
  /\ mappings[1].lastSyncedAt > mappings[2].lastSyncedAt + 1
  /\ mappings[1].targetId # mappings[2].targetId

\* the calls of the run on the adapter of T for event or row X of S
CallsOn(T, X, S, oks) ==
  { i \in 1..Len(calls) :
      /\ calls[i].op # "getEvents"
      /\ calls[i].cal = T
      /\ calls[i].sourceId = X
      /\ calls[i].source = S
      /\ calls[i].ok \in oks }

\* what edge (S, T) requires for X in this run, judged on the store of the
\* run's start, was called
RequiredCallMade(X, S, T) ==
  LET row == findMapping(storeAtStart, X, S, T)
      here == { e \in Range(allEvents[S]) : e.sourceId = X }
  IN IF here = {}
     THEN row # NoMapping =>
            \E i \in CallsOn(T, X, S, BOOLEAN) : calls[i].op = "deleteEvent"
     ELSE \A e \in here :
            IF row = NoMapping
            THEN \E i \in CallsOn(T, X, S, BOOLEAN) :
                   calls[i].op = "createEvent"
            ELSE needsUpdate(e, row) =>
                   \E i \in CallsOn(T, X, S, BOOLEAN) :
                     calls[i].op = "updateEvent"

C20_PersonalStaysPrivate ==
  \A n \in 1..MaxMirrors :
    (lineage[n].sourceId # NoId /\ lineage[n].root \in {"google", "apple"})
      => ~lineage[n].public

\* a read that getEvents needs has failed: no read found the calendars, or
\* the read of a calendar (page) the adapter covers did not return
ReadFailed(sc) ==
  \/ \A i \in 1..Len(sc.list) : sc.list[i] # "ok"
  \/ \E k \in (IF sc.adapter \in {"dooray-caldav", "apple"} THEN {1}
               ELSE 1..Len(sc.reads)) : sc.reads[k] # "ok"

\* C21: getEvents of an adapter never returns a list when a backend read
\* it needed has failed; it raises.
C21_FetchRaisesOnFailure ==
  got.status = "returned" => ~ReadFailed(reads)

\* a credential the Dooray adapter cannot work without is missing or empty
ConfigIncomplete(cfg) ==
  \/ ~cfg.dooray.present
  \/ cfg.dooray.username \in {"missing", "empty"}
  \/ cfg.dooray.password \in {"missing", "empty"}

\* C22: on a configuration whose dooray section, username or password is
\* missing or empty, initialize raises: no engine with a registered client
\* is returned and no sync run starts.
C22_IncompleteConfigRejected ==
  (engine.status # "none" /\ ConfigIncomplete(config)) =>
    /\ engine.status \in {"raised", "reported"}
    /\ engine.clients = <<>>
    /\ ~engine.syncing

\* the calls of the run that raised for the triple of an error entry
RaisedCalls(sourceId, source, target) ==
  { i \in 1..Len(calls) :
      /\ ~calls[i].ok
      /\ calls[i].sourceId = sourceId
      /\ calls[i].source = source
      /\ calls[i].cal = target }

\* C23: in the result a run returns, created, updated and deleted are the
\* numbers of createEvent, updateEvent and deleteEvent calls that returned,
\* and errors holds one entry for each call that raised and no other entry.
C23_ExactCounts ==
  pc = "done" =>
    /\ result.created = NumOk("createEvent")
    /\ result.updated = NumOk("updateEvent")
    /\ result.deleted = NumOk("deleteEvent")
    /\ Len(result.errors) =
         Cardinality({ i \in 1..Len(calls) : ~calls[i].ok })
    /\ \A i \in 1..Len(calls) :
         ~calls[i].ok =>
           NumErrors(calls[i].sourceId, calls[i].source, calls[i].cal) =
             Cardinality(RaisedCalls(calls[i].sourceId, calls[i].source,
                                     calls[i].cal))

\* a run returns in which a createEvent call and a deleteEvent call have
\* returned and one call has raised
C23_Witness ==
  /\ pc = "done"
  /\ result.created >= 1
  /\ result.deleted >= 1
  /\ Len(result.errors) = 1

\* C24: a createEvent or updateEvent call that raises is the only call of
\* the run for its event on its edge and leaves the row of its key as it
\* was when the run started; and a run that fetches the event again as it
\* was makes, for every such call of the last run that returned, the same
\* call again: createEvent while no row exists, updateEvent on the row's
\* target object.
C24_RetryByNextRun ==
  /\ \A i \in 1..Len(calls) :
       (IsWrite(calls[i]) /\ ~calls[i].ok) =>
         LET c == calls[i]
         IN /\ NumCalls({"createEvent", "updateEvent"}, c.cal, c.sourceId,
                        c.source, BOOLEAN) = 1
            /\ findMapping(mappings, c.sourceId, c.source, c.cal) =
                 findMapping(storeAtStart, c.sourceId, c.source, c.cal)
  /\ pc = "done" =>
       \A k \in failedWrites :
         (/\ k.source \in Range(fetched)
          /\ \E e \in Range(allEvents[k.source]) :
               e.sourceId = k.sourceId /\ e.updatedAt = k.updatedAt) =>
           \E i \in 1..Len(calls) :
             /\ calls[i].op = k.op
             /\ calls[i].cal = k.target
             /\ calls[i].sourceId = k.sourceId
             /\ calls[i].source = k.source
             /\ k.op = "updateEvent" =>
                  calls[i].targetId =
                    findMapping(storeAtStart, k.sourceId, k.source,
                                k.target).targetId

\* an updateEvent call that raised in the last run was made again in this
\* run and returned
C24_Witness ==
  /\ pc = "done"
  /\ \E k \in failedWrites :
       /\ k.op = "updateEvent"
       /\ \E i \in 1..Len(calls) :
            /\ calls[i].op = "updateEvent" /\ calls[i].ok
            /\ calls[i].cal = k.target
            /\ calls[i].sourceId = k.sourceId
            /\ calls[i].source = k.source

\* the first run of the example returns: three calendars, an empty store,
\* one event in dooray and none in google and apple, and no call raised
FirstRunOfExample ==
  /\ pc = "done"
  /\ runs = 1
  /\ Len(clients) = 3
  /\ storeAtStart = <<>>
  /\ Range(fetched) = Range(clients)
  /\ Len(allEvents["dooray"]) = 1
  /\ allEvents["google"] = <<>>
  /\ allEvents["apple"] = <<>>
  /\ \A i \in 1..Len(calls) : calls[i].ok

\* the store holds two rows, one for the event on each edge out of dooray
TwoRowsOfExample ==
  /\ count(mappings) = 2
  /\ \A T \in {"google", "apple"} :
       findMapping(mappings, allEvents["dooray"][1].sourceId, "dooray", T)
         # NoMapping

\* C25 as stated: the first run of the example issues 4 createEvent calls
\* and the store ends with the 2 rows of the event.
C25_FirstRunFourCreates ==
  FirstRunOfExample =>
    /\ Cardinality({ i \in 1..Len(calls) : calls[i].op = "createEvent" }) = 4
    /\ TwoRowsOfExample

\* C25, amended: the first run of the example issues 2 createEvent calls,
\* one on each edge out of dooray, and the store ends with the 2 rows of the
\* event.
C25_FirstRunTwoCreates ==
  FirstRunOfExample =>
    /\ Cardinality({ i \in 1..Len(calls) : calls[i].op = "createEvent" }) = 2
    /\ \A T \in {"google", "apple"} :
         NumCalls({"createEvent"}, T, allEvents["dooray"][1].sourceId,
                  "dooray", {TRUE}) = 1
    /\ TwoRowsOfExample

\* the first run of the example has returned with created = 2
C25_Witness ==
  /\ FirstRunOfExample
  /\ result.created = 2
  /\ Len(calls) = 5

\* the store file has been removed since the script started
StoreRemoved ==
  script.pos \notin {"none", "start"} /\ script.storeAtStart /\ file = NoFile

\* C26: a run of the cleanup script without --delete, with or without
\* --all, calls deleteCalendarObject for no object and leaves the store
\* file in place; the store file is removed only by a run with --delete
\* that has gone through the deletion loop.
C26_PreviewHasNoEffect ==
  /\ "--delete" \notin script.args =>
       (script.deleteCalls = <<>> /\ ~StoreRemoved)
  /\ StoreRemoved =>
       /\ "--delete" \in script.args
       /\ toDelete(script.objects, script.args) # <<>>
       /\ script.deleteCalls = toDelete(script.objects, script.args)

\* a run with --all and without --delete has listed two objects and ended,
\* and the store file is still there
C26_Witness ==
  /\ script.pos = "exit0"
  /\ script.args = {"--all"}
  /\ Len(toDelete(script.objects, script.args)) = 2
  /\ script.storeAtStart
  /\ file = SomeStoreFile

\* the phase of sync() in which a call is made
Phase(c) ==
  IF c.op = "getEvents" THEN 1
  ELSE IF c.op \in {"createEvent", "updateEvent"} THEN 2
  ELSE 3

\* C27: the adapter calls of a run come in the order of the phases: every
\* getEvents call before any createEvent or updateEvent call, and these
\* before any deleteEvent call; and no object that createEvent returned in
\* the run is among the events the run fetched or propagates.
C27_PhaseOrdering ==
  /\ \A i \in 1..Len(calls) : \A j \in 1..Len(calls) :
       i < j => Phase(calls[i]) <= Phase(calls[j])
  /\ pc \in {"propagate", "cleanup", "done"} =>
       Len(calls) >= Len(clients)
  /\ \A i \in 1..Len(calls) :
       (calls[i].op = "createEvent" /\ calls[i].ok) =>
         /\ calls[i].targetId \notin FetchedIds(calls[i].cal)
         /\ \A j \in 1..Len(calls) :
              ~(calls[j].source = calls[i].cal
                /\ calls[j].sourceId = calls[i].targetId)

\* a run has made calls of all three phases: its getEvents calls, then a
\* createEvent call that returned, then a deleteEvent call
C27_Witness ==
  /\ pc = "done"
  /\ \E i \in 1..Len(calls) : calls[i].op = "createEvent" /\ calls[i].ok
  /\ \E i \in 1..Len(calls) : calls[i].op = "deleteEvent"
  /\ Phase(calls[Len(calls)]) = 3
  /\ Phase(calls[Len(clients) + 1]) = 2

\* C28: when a run returns that fetched an event whose row on an edge
\* points to an object the target calendar no longer holds, and the event's
\* updatedAt differs from the row's, the run has called updateEvent with the
\* row's targetId, that call has raised and has one error entry, the row is
\* as it was when the run started, and createEvent was not called for the
\* key.
C28_StaleTargetFailsLoudly ==
  pc = "done" =>
    \A S \in Range(fetched) : \A T \in Range(clients) \ {S} :
      \A e \in Range(allEvents[S]) :
        LET row == findMapping(storeAtStart, e.sourceId, S, T)
        IN (/\ row # NoMapping
            /\ ~Exists(T, row.targetId)
            /\ needsUpdate(e, row)) =>
             /\ \E i \in CallsOn(T, e.sourceId, S, {FALSE}) :
                  /\ calls[i].op = "updateEvent"
                  /\ calls[i].targetId = row.targetId
             /\ CallsOn(T, e.sourceId, S, {TRUE}) = {}
             /\ NumErrors(e.sourceId, S, T) = 1
             /\ findMapping(mappings, e.sourceId, S, T) = row
             /\ NumCalls({"createEvent"}, T, e.sourceId, S, BOOLEAN) = 0

\* the value of the named field of the written object, <<"ABSENT">> when
\* the object has no such field
WrittenField(name) ==
  LET at == { i \in 1..Len(written.fields) : written.fields[i].name = name }
  IN IF at = {} THEN <<"ABSENT">>
     ELSE written.fields[CHOOSE i \in at : TRUE].value

\* the field in which each backend keeps the title
TitleField ==
  IF written.adapter \in {"dooray-caldav", "apple"} THEN "SUMMARY"
  ELSE IF written.adapter = "google" THEN "summary"
  ELSE "subject"

\* the written object carries the private flag of its backend
NativePrivate ==
  IF written.adapter \in {"dooray-caldav", "apple"}
  THEN WrittenField("CLASS") = <<"PRIVATE">>
  ELSE IF written.adapter = "google"
  THEN /\ WrittenField("visibility") = <<"private">>
       /\ WrittenField("transparency") = <<"opaque">>
  ELSE WrittenField("scope") = <<"private">>

\* C29: the object any adapter writes with visibility = private has a
\* title that starts with the padlock prefix and carries the private flag
\* of its backend.
C29_PrivateMarking ==
  (written # NoObject /\ probe.visibility = "private") =>
    /\ Len(WrittenField(TitleField)) >= 2
    /\ SubSeq(WrittenField(TitleField), 1, 2) = <<"LOCK", " ">>
    /\ NativePrivate

\* the written object carries the public or default visibility of its
\* backend
NativePublic ==
  IF written.adapter \in {"dooray-caldav", "apple"}
  THEN WrittenField("CLASS") = <<"PUBLIC">>
  ELSE IF written.adapter = "google"
  THEN WrittenField("visibility") = <<"default">>
  ELSE WrittenField("scope") = <<"ABSENT">>

\* C30: the object any adapter writes with visibility = public carries the
\* public or default visibility of its backend, and the event the same
\* adapter reads back from it has the title, description and location of
\* the event that was written.
C30_PublicPassThrough ==
  (parsed # NoEvent /\ probe.visibility = "public") =>
    /\ NativePublic
    /\ parsed.title = probe.event.title
    /\ parsed.description = probe.event.description
    /\ parsed.location = probe.event.location

(* ---------------------------------------------------------------------- *)
(* The window and the dates of the Dooray adapter                         *)
(* ---------------------------------------------------------------------- *)
\* the instant a date text of the current getEvents call stands for
Instant(text) == getTime(NewDate(text), window.offset).t

Returns(evt) == \E k \in 1..Len(window.events) : window.events[k] = evt

\* C31: getEvents(from, to) of the Dooray adapter returns a parsed event
\* if and only if endTime >= from and startTime <= to
C31_WindowIntersection ==
  window.called =>
    \A i \in 1..Len(window.objects) :
      LET evt == parseICalToEventDates(window.objects[i], window.offset)
      IN evt # NoDates =>
           (Returns(evt) <=>
              /\ Instant(evt.endTime) >= Instant(window.from)
              /\ Instant(evt.startTime) <= Instant(window.to))

\* an event that began before the window and ends inside it was returned,
\* in a call whose zone is not UTC
C31_Witness ==
  /\ window.called
  /\ window.offset # 0
  /\ Len(window.events) = 1
  /\ Instant(window.events[1].startTime) < Instant(window.from)
  /\ Instant(window.events[1].endTime) >= Instant(window.from)
  /\ Instant(window.events[1].endTime) < Instant(window.to)

\* b is the calendar day after a, both written as 'YYYY-MM-DD'
DayAfter(a, b) ==
  /\ Shape(a) = DayShape
  /\ Shape(b) = DayShape
  /\ LET da == NewDate(a)
         db == NewDate(b)
     IN /\ da.valid
        /\ db.valid
        /\ DaysFromCivil(db.y, db.m, db.d) = DaysFromCivil(da.y, da.m, da.d) + 1
        /\ CivilOfDays(DaysFromCivil(db.y, db.m, db.d))
             = [y |-> db.y, m |-> db.m, d |-> db.d]

\* the object has no DTEND the adapter can use
EndUnusable(obj) ==
  \/ obj.dtend = NoMatch
  \/ ~NewDate(parseICalDate(obj.dtend)).valid
  \/ getFullYear(NewDate(parseICalDate(obj.dtend)), window.offset) < 2000

C40_DateRoundTrip ==
  /\ conv.dooray # <<>> => conv.dooray = conv.iso
  /\ conv.apple # <<>> => conv.apple = conv.iso
  /\ conv.ical # <<>> =>
       (("T" \in Range(conv.ical)) <=> ("T" \in Range(conv.iso)))

\* a date with a time and a Z has been through both adapters
C40_Witness ==
  /\ endsWith(conv.iso, "Z")
  /\ conv.dooray # <<>>
  /\ conv.apple # <<>>

(* ---------------------------------------------------------------------- *)
(* One engine for one registration                                        *)
(* ---------------------------------------------------------------------- *)
\* C38: for any interleaving of tool executions initialize completes at
\* most once and every execution uses the same engine, so no two engines
\* run sync() on the store file
C38_SingleEngine ==
  /\ host.made <= 1
  /\ \A e, f \in DOMAIN host.execs :
       (host.execs[e].eng # NullEngine /\ host.execs[f].eng # NullEngine)
         => host.execs[e].eng = host.execs[f].eng
  /\ Cardinality(host.synced) <= 1

(* ---------------------------------------------------------------------- *)
(* Reverse lookups of the store                                           *)
(* ---------------------------------------------------------------------- *)
\* the last adapter call of the step just taken, when the step made one
Issued(op) ==
  /\ Len(calls') = Len(calls) + 1
  /\ calls'[Len(calls')].op = op
  /\ calls'[Len(calls')].ok

\* the lookups agree with the rows of a mapping list
LookupsAgree(maps) ==
  \A c \in CalendarSource :
    /\ getSyncedTargetIds(maps, c)
         = { maps[i].targetId : i \in { j \in 1..Len(maps) :
                                          maps[j].target = c } }
    /\ \A n \in 1..MaxMirrors :
         isSyncedEvent(maps, MirrorId(n), c)
           <=> MirrorId(n) \in getSyncedTargetIds(maps, c)
    /\ \A n \in 1..MaxUser :
         isSyncedEvent(maps, UserId(n), c)
           <=> UserId(n) \in getSyncedTargetIds(maps, c)

\* C33: getSyncedTargetIds(c) is the set of targetId of the rows with
\* target = c and isSyncedEvent(id, c) holds exactly for its members; the
\* id a successful createEvent returned is in getSyncedTargetIds(T), and
\* after a successful cleanup deleteEvent of that mirror it is not
C33_ReverseLookups ==
  [][ /\ LookupsAgree(mappings')
      /\ Issued("createEvent") =>
           calls'[Len(calls')].targetId
             \in getSyncedTargetIds(mappings', calls'[Len(calls')].cal)
      /\ Issued("deleteEvent") =>
           calls'[Len(calls')].targetId
             \notin getSyncedTargetIds(mappings', calls'[Len(calls')].cal)
    ]_vars

\* a mirror has been created and later deleted by cleanup, while another
\* row with the same target is still in the store
C33_Witness ==
  /\ \E i \in 1..Len(calls) :
       /\ calls[i].op = "deleteEvent"
       /\ calls[i].ok
       /\ getSyncedTargetIds(mappings, calls[i].cal) # {}
       /\ calls[i].targetId \notin getSyncedTargetIds(mappings, calls[i].cal)

(* ---------------------------------------------------------------------- *)
(* Store operations and their key                                         *)
(* ---------------------------------------------------------------------- *)
Find(maps, k) == findMapping(maps, k.sourceId, k.source, k.target)

\* the rows of key k in list order
RowsOf(maps, k) ==
  LET hit(m) == KeyOf(m) = k
  IN SelectSeq(maps, hit)

OthersUntouched(k0) ==
  \A k \in StoreKeys \ {k0} : RowsOf(mappings', k) = RowsOf(mappings, k)

\* C34: upsertMapping(m) makes findMapping of m's key return m and
\* removeMapping(k) makes findMapping(k) return nothing; both leave the
\* rows of every other key as they were, rows of the same sourceId on
\* another edge included
C34_OneKeyOnly ==
  [][ \/ \E k0 \in StoreKeys, n \in 1..2 :
           LET m == [sourceId |-> k0.sourceId, source |-> k0.source,
                     targetId |-> MirrorId(n), target |-> k0.target,
                     lastSyncedAt |-> clock', sourceUpdatedAt |-> NoStamp]
           IN /\ mappings' = upsertMapping(mappings, m)
              /\ Find(mappings', k0) = m
              /\ OthersUntouched(k0)
      \/ \E k0 \in StoreKeys :
           /\ mappings' = removeMapping(mappings, k0.sourceId, k0.source,
                                        k0.target)
           /\ Find(mappings', k0) = NoMapping
           /\ OthersUntouched(k0)
    ]_vars

\* a row was removed from a store that keeps a row of the same sourceId on
\* another edge and a replaced row of another key
C34_Witness ==
  /\ clock >= 4
  /\ Find(mappings, [sourceId |-> UserId(1), source |-> "dooray",
                     target |-> "google"]) = NoMapping
  /\ Find(mappings, [sourceId |-> UserId(1), source |-> "dooray",
                     target |-> "apple"]) # NoMapping
  /\ \E i \in 1..Len(mappings) : \E j \in 1..Len(mappings) :
       i < j /\ mappings[i].lastSyncedAt > mappings[j].lastSyncedAt

(* ---------------------------------------------------------------------- *)
(* The target id of a row                                                 *)
(* ---------------------------------------------------------------------- *)
\* the step just taken issued an adapter call, returned or raised
Called(ops) ==
  /\ Len(calls') = Len(calls) + 1
  /\ calls'[Len(calls')].op \in ops

\* the key (sourceId, source, target) a write or delete call was made for
CallKey(c) == [sourceId |-> c.sourceId, source |-> c.source, target |-> c.cal]

\* C35: the row of a key keeps the targetId createEvent returned for as
\* long as the row is in the store, and every updateEvent and deleteEvent
\* call for the key is made with that targetId
C35_TargetIdStable ==
  [][ /\ \A i \in 1..Len(mappings) :
           LET k == KeyOf(mappings[i])
           IN Find(mappings', k) # NoMapping =>
                Find(mappings', k).targetId = Find(mappings, k).targetId
      /\ Issued("createEvent") =>
           LET c == calls'[Len(calls')]
           IN Find(mappings', CallKey(c)).targetId = c.targetId
      /\ Called({"updateEvent", "deleteEvent"}) =>
           LET c == calls'[Len(calls')]
           IN /\ Find(mappings, CallKey(c)) # NoMapping
              /\ c.targetId = Find(mappings, CallKey(c)).targetId
    ]_vars

\* in a later run a mirror was updated with the id its createEvent had
\* returned, and the row still carries that id
C35_Witness ==
  /\ runs >= 2
  /\ \E i \in 1..Len(calls) :
       /\ calls[i].op = "updateEvent"
       /\ calls[i].ok
       /\ \E n \in 1..MaxMirrors :
            /\ calls[i].targetId = MirrorId(n)
            /\ lineage[n].sourceId = calls[i].sourceId
       /\ Find(mappings, CallKey(calls[i])) # NoMapping
       /\ Find(mappings, CallKey(calls[i])).targetId = calls[i].targetId

(* ---------------------------------------------------------------------- *)
(* Convergence                                                            *)
(* ---------------------------------------------------------------------- *)
\* a run has ended without a createEvent, updateEvent or deleteEvent call
QuietRun ==
  /\ pc = "done"
  /\ \A i \in 1..Len(calls) : calls[i].op = "getEvents"

HasRow(T, id) ==
  \E i \in 1..Len(mappings) :
    mappings[i].target = T /\ mappings[i].targetId = id

\* C37: when nothing fails, no run is interrupted and only the engine
\* changes mirrors, after every completed run each row's targetId is an
\* event of the row's target calendar, each engine-created event has a row
\* and no two rows share (target, targetId)
C37_RowsMatchMirrors ==
  (pc = "idle" /\ runs >= 1) =>
    /\ \A i \in 1..Len(mappings) :
         Exists(mappings[i].target, mappings[i].targetId)
    /\ \A T \in CalendarSource : \A o \in remote[T] :
         IsMirror(o.sourceId) => HasRow(T, o.sourceId)
    /\ \A i \in 1..Len(mappings) : \A j \in 1..Len(mappings) :
         (/\ mappings[i].target = mappings[j].target
          /\ mappings[i].targetId = mappings[j].targetId) => i = j

\* a run that deleted a mirror has completed and rows are left
C37_Witness ==
  /\ pc = "idle"
  /\ runs >= 2
  /\ mappings # <<>>
  /\ \E n \in 1..MaxMirrors :
       /\ lineage[n] # NoLineage
       /\ \A T \in CalendarSource : ~Exists(T, MirrorId(n))

(* ---------------------------------------------------------------------- *)
(* Several fetched events with one sourceId                               *)
(* ---------------------------------------------------------------------- *)
\* the fetched list of source S holds sourceId X more than once
Duplicated(X, S) ==
  Cardinality({ i \in 1..Len(allEvents[S]) :
                  allEvents[S][i].sourceId = X }) > 1

CallsFor(op, X, S, T) ==
  { i \in 1..Len(calls) :
      /\ calls[i].op = op
      /\ calls[i].ok
      /\ calls[i].sourceId = X
      /\ calls[i].source = S
      /\ calls[i].cal = T }

\* C39: when the fetched list of S holds sourceId X several times, at most
\* one createEvent call succeeds for (X, S, T) in the run, and with
\* unchanged calendars the runs come to issue no updateEvent for the key:
\* the last run of the behaviour issues none
C39_OneMirrorPerKey ==
  \A S \in CalendarSource, T \in CalendarSource :
    \A X \in { allEvents[S][i].sourceId : i \in 1..Len(allEvents[S]) } :
      Duplicated(X, S) =>
        /\ Cardinality(CallsFor("createEvent", X, S, T)) <= 1
        /\ (pc = "done" /\ runs = MaxRuns) =>
             CallsFor("updateEvent", X, S, T) = {}

====
